---- MODULE Spec2Model ----
(***************************************************************************)
(* EdgeMesh coordinator: the task/job store of db/repository.py with the   *)
(* scheduler of scheduler/core.py.                                         *)
(*                                                                         *)
(* Every repository method runs inside one `session_factory.begin()`       *)
(* transaction and is called synchronously from an `async def` handler or  *)
(* monitor (no await inside the call), so each method is one atomic step;  *)
(* an exception rolls the transaction back and leaves the tables as they   *)
(* were.  Time is the integer `clock` (seconds); `_utc_now()` reads it.    *)
(* The write-only bookkeeping column `updated_at` and the opaque payload / *)
(* output / duration columns are not carried: no decision reads them.      *)
(***************************************************************************)
EXTENDS Integers, Sequences, FiniteSets, TLC

VARIABLES
    clock,      \* the wall clock read by _utc_now()
    nodes,      \* table nodes:   node_id -> NodeRecord (with last_seen)
    jobs,       \* table jobs:    id -> JobRecord
    tasks,      \* table tasks:   id -> TaskRecord (ids in creation order)
    results,    \* table results: the number of rows (rows are only ever appended)
    stale_nodes, \* stale_node_monitor: the nodes its last pass got back and published
    subscribers, \* event bus: subscriber queue -> the events waiting in it
    streams,     \* SSE generators of stream.py: queue -> position and events sent
    published,   \* event bus: the number of events published so far
    migration_files, \* db/migrations/*.sql: the versions (file stems) shipped
    database     \* the SQLite file: schema_migrations and the scripts executed on it

vars == <<clock, nodes, jobs, tasks, results, stale_nodes, subscribers, streams, published,
          migration_files, database>>

(* ------------------------------ bounds --------------------------------- *)

MaxTasks == 1
MaxTime == 2
MaxSchedTasks == 2
MaxEvents == 3
MaxVersions == 4

(* ------------------------- values and inputs --------------------------- *)

NodeIds == {"n1", "n2"}
JobOrder == <<"j1">>
JobIds == {JobOrder[i] : i \in 1 .. Len(JobOrder)}
TaskIds == 1 .. MaxTasks

None == "None"
NoTime == -1
NoPct == -1
NoNum == -1
NoTask == 0

TaskType == {"INFERENCE", "EMBEDDINGS", "INDEX", "TOKENIZE", "PREPROCESS"}
JobStatus == {"QUEUED", "RUNNING", "COMPLETED", "FAILED", "CANCELLED"}
TaskStatus == {"QUEUED", "RUNNING", "COMPLETED", "FAILED"}
NodeStatus == {"UNKNOWN", "ONLINE", "OFFLINE"}

NodeOrder == <<"n1", "n2">>

\* the queues the event bus hands to its subscribers, one per SSE request
QueueIds == {"q1", "q2"}

TaskTypeInputs == {"EMBEDDINGS"}
MaxRetriesInputs == {-1, 0, 1}
LeaseSecondsInputs == {0, 1}

Max(a, b) == IF a >= b THEN a ELSE b

SetMin(S) == CHOOSE x \in S : \A y \in S : x <= y
SetMax(S) == CHOOSE x \in S : \A y \in S : x >= y

_utc_now == clock

(* ------------------------------ nodes ---------------------------------- *)

\* NodeCapabilities(): RAM and VRAM sizes are in thousandths of a GB
DefaultCapabilities ==
    [has_gpu |-> FALSE, cpu_cores |-> NoNum, cpu_threads |-> NoNum,
     ram_total_gb |-> NoNum, ram_gb |-> NoNum, gpu_name |-> None,
     vram_total_gb |-> NoNum]

\* NodeMetrics(): heartbeat_ts defaults to the time of construction
DefaultMetrics(now) ==
    [cpu_percent |-> 0, ram_percent |-> 0, gpu_percent |-> NoPct, heartbeat_ts |-> now]

DefaultPolicy ==
    [enabled |-> TRUE, cpu_cap_percent |-> 100, gpu_cap_percent |-> NoPct,
     ram_cap_percent |-> 100, task_allowlist |-> TaskType,
     role_preference |-> "AUTO"]

\* the heartbeat of an agent whose own clock reads 0
MetricsInputs ==
    {[cpu_percent |-> 10, ram_percent |-> 20, gpu_percent |-> NoPct, heartbeat_ts |-> 0]}

\* a heartbeat that also reports GPU load
GpuMetricsInputs ==
    {[cpu_percent |-> 10, ram_percent |-> 20, gpu_percent |-> 50, heartbeat_ts |-> 0]}

\* the default policy and policies that differ from it in one setting
PolicyInputs ==
    {DefaultPolicy,
     [DefaultPolicy EXCEPT !.enabled = FALSE],
     [DefaultPolicy EXCEPT !.cpu_cap_percent = 5],
     [DefaultPolicy EXCEPT !.ram_cap_percent = 10],
     [DefaultPolicy EXCEPT !.gpu_cap_percent = 40],
     [DefaultPolicy EXCEPT !.task_allowlist = {"EMBEDDINGS"}],
     [DefaultPolicy EXCEPT !.role_preference = "PREFER_INFERENCE"]}

StaleSecondsInputs == {1}

\* heartbeats stamped by the agent now or a second ago
HeartbeatInputs(now) ==
    {[cpu_percent |-> 10, ram_percent |-> 20, gpu_percent |-> NoPct, heartbeat_ts |-> ts] :
        ts \in {now, Max(now - 1, 0)}}

NodePolicyInputs == {DefaultPolicy, [DefaultPolicy EXCEPT !.enabled = FALSE]}

_ensure_node(ns, n, now) ==
    IF n \in DOMAIN ns THEN ns
    ELSE [m \in DOMAIN ns \cup {n} |->
            IF m = n
            THEN [status |-> "UNKNOWN", capabilities |-> DefaultCapabilities,
                  metrics |-> DefaultMetrics(now), policy |-> DefaultPolicy,
                  last_seen |-> now]
            ELSE ns[m]]

(* ----------------------------- scheduler ------------------------------- *)

_task_requires_gpu(task_type) == task_type = "INFERENCE"

GpuCap(node) ==
    IF node.policy.gpu_cap_percent # NoPct THEN node.policy.gpu_cap_percent ELSE 100

\* variant, not the code: the GPU cap is checked for every task type
EligibilityReasons_GpuForAllTypes(node, task_type) ==
    (IF ~node.policy.enabled THEN <<"policy_disabled">> ELSE <<>>)
    \o (IF node.status # "ONLINE" THEN <<"node_not_online">> ELSE <<>>)
    \o (IF task_type \notin node.policy.task_allowlist
        THEN <<"task_not_allowed">> ELSE <<>>)
    \o (IF node.metrics.cpu_percent > node.policy.cpu_cap_percent
        THEN <<"cpu_over_cap">> ELSE <<>>)
    \o (IF node.metrics.ram_percent > node.policy.ram_cap_percent
        THEN <<"ram_over_cap">> ELSE <<>>)
    \o (IF /\ node.metrics.gpu_percent # NoPct
           /\ node.metrics.gpu_percent > GpuCap(node)
        THEN <<"gpu_over_cap">> ELSE <<>>)


EligibilityReasons(node, task_type) ==
    (IF ~node.policy.enabled THEN <<"policy_disabled">> ELSE <<>>)
    \o (IF node.status # "ONLINE" THEN <<"node_not_online">> ELSE <<>>)
    \o (IF task_type \notin node.policy.task_allowlist
        THEN <<"task_not_allowed">> ELSE <<>>)
    \o (IF node.metrics.cpu_percent > node.policy.cpu_cap_percent
        THEN <<"cpu_over_cap">> ELSE <<>>)
    \o (IF node.metrics.ram_percent > node.policy.ram_cap_percent
        THEN <<"ram_over_cap">> ELSE <<>>)
    \o (IF /\ _task_requires_gpu(task_type)
           /\ node.metrics.gpu_percent # NoPct
           /\ node.metrics.gpu_percent > GpuCap(node)
        THEN <<"gpu_over_cap">> ELSE <<>>)

\* variant, not the code: the allowlist is not consulted
evaluate_node_eligibility_NoAllowlist(node, task_type) ==
    Len(SelectSeq(EligibilityReasons(node, task_type),
                  LAMBDA r : r # "task_not_allowed")) = 0

evaluate_node_eligibility(node, task_type) ==
    Len(EligibilityReasons(node, task_type)) = 0

\* min(observed / cap, 2.0) * weight, in thousandths, rounded half up
RatioMilli(observed, cap, weight) ==
    IF observed >= 2 * cap THEN 2000 * weight
    ELSE (2 * 1000 * weight * observed + cap) \div (2 * cap)

\* score_node in thousandths (the code rounds to 3 decimals)
score_node(node, task_type) ==
    LET cpu_cap == Max(node.policy.cpu_cap_percent, 1)
        ram_cap == Max(node.policy.ram_cap_percent, 1)
        base == 100000 - (RatioMilli(node.metrics.cpu_percent, cpu_cap, 50)
                          + RatioMilli(node.metrics.ram_percent, ram_cap, 40))
        gpu_bonus ==
            IF /\ task_type = "INFERENCE"
               /\ node.capabilities.has_gpu
               /\ node.policy.role_preference \in {"AUTO", "PREFER_INFERENCE"}
            THEN 10000 ELSE 0
        role_bonus ==
            IF \/ node.policy.role_preference = "PREFER_INFERENCE" /\ task_type = "INFERENCE"
               \/ node.policy.role_preference = "PREFER_EMBEDDINGS" /\ task_type = "EMBEDDINGS"
               \/ node.policy.role_preference = "PREFER_PREPROCESS" /\ task_type = "PREPROCESS"
            THEN 15000 ELSE 0
        gpu_penalty ==
            IF node.metrics.gpu_percent # NoPct /\ task_type = "INFERENCE"
            THEN RatioMilli(node.metrics.gpu_percent, Max(GpuCap(node), 1), 10)
            ELSE 0
    IN  base + gpu_bonus + role_bonus - gpu_penalty

(* --------------------------- jobs and tasks ---------------------------- *)

TasksOfJob(ts, job_id) == {t \in DOMAIN ts : ts[t].job_id = job_id}

CountStatus(ts, job_id, status) ==
    Cardinality({t \in TasksOfJob(ts, job_id) : ts[t].status = status})

RECURSIVE SumRetries(_, _)
SumRetries(ts, S) ==
    IF S = {} THEN 0
    ELSE LET t == CHOOSE x \in S : TRUE
         IN  ts[t].retries + SumRetries(ts, S \ {t})

\* variant, not the code: running_tasks counts the rows that have an assigned node
_job_stats_RunningByAssignment(ts, job_id) ==
    LET rows == TasksOfJob(ts, job_id)
        assigned == {ts[t].assigned_node_id : t \in {x \in rows : ts[x].assigned_node_id # None}}
    IN  [total_tasks |-> Cardinality(rows),
         queued_tasks |-> CountStatus(ts, job_id, "QUEUED"),
         running_tasks |-> Cardinality({x \in rows : ts[x].assigned_node_id # None}),
         completed_tasks |-> CountStatus(ts, job_id, "COMPLETED"),
         failed_tasks |-> CountStatus(ts, job_id, "FAILED"),
         total_retries |-> SumRetries(ts, rows),
         assigned_nodes |-> SelectSeq(NodeOrder, LAMBDA n : n \in assigned)]

\* variant, not the code: the assigned nodes are sorted in descending order
_job_stats_DescendingNodes(ts, job_id) ==
    LET rows == TasksOfJob(ts, job_id)
        assigned == {ts[t].assigned_node_id : t \in {x \in rows : ts[x].assigned_node_id # None}}
    IN  [total_tasks |-> Cardinality(rows),
         queued_tasks |-> CountStatus(ts, job_id, "QUEUED"),
         running_tasks |-> CountStatus(ts, job_id, "RUNNING"),
         completed_tasks |-> CountStatus(ts, job_id, "COMPLETED"),
         failed_tasks |-> CountStatus(ts, job_id, "FAILED"),
         total_retries |-> SumRetries(ts, rows),
         assigned_nodes |-> SelectSeq(<<"n2", "n1">>, LAMBDA n : n \in assigned)]

_job_stats(ts, job_id) ==
    LET rows == TasksOfJob(ts, job_id)
        assigned == {ts[t].assigned_node_id : t \in {x \in rows : ts[x].assigned_node_id # None}}
    IN  [total_tasks |-> Cardinality(rows),
         queued_tasks |-> CountStatus(ts, job_id, "QUEUED"),
         running_tasks |-> CountStatus(ts, job_id, "RUNNING"),
         completed_tasks |-> CountStatus(ts, job_id, "COMPLETED"),
         failed_tasks |-> CountStatus(ts, job_id, "FAILED"),
         total_retries |-> SumRetries(ts, rows),
         assigned_nodes |-> SelectSeq(NodeOrder, LAMBDA n : n \in assigned)]

\* variant, not the code: a job without tasks is set to QUEUED
DerivedStatus_EmptyIsQueued(stats, current) ==
    IF stats.completed_tasks = stats.total_tasks /\ stats.total_tasks > 0 THEN "COMPLETED"
    ELSE IF /\ stats.failed_tasks > 0
            /\ stats.queued_tasks = 0
            /\ stats.running_tasks = 0 THEN "FAILED"
    ELSE IF \/ stats.running_tasks > 0
            \/ stats.completed_tasks > 0
            \/ stats.failed_tasks > 0 THEN "RUNNING"
    ELSE "QUEUED"

DerivedStatus(stats, current) ==
    IF stats.total_tasks > 0
    THEN IF stats.completed_tasks = stats.total_tasks THEN "COMPLETED"
         ELSE IF /\ stats.failed_tasks > 0
                 /\ stats.queued_tasks = 0
                 /\ stats.running_tasks = 0 THEN "FAILED"
         ELSE IF \/ stats.running_tasks > 0
                 \/ stats.completed_tasks > 0
                 \/ stats.failed_tasks > 0 THEN "RUNNING"
         ELSE "QUEUED"
    ELSE current

\* variant, not the code: the refresh never lowers the attempts stored on the job
RefreshedJob_KeepAttempts(row, ts, job_id) ==
    LET stats == _job_stats(ts, job_id)
        status == DerivedStatus(stats, row.status)
        rows == TasksOfJob(ts, job_id)
        started_values == {ts[t].started_at : t \in {x \in rows : ts[x].started_at # NoTime}}
        completed_values == {ts[t].completed_at : t \in {x \in rows : ts[x].completed_at # NoTime}}
    IN  [status |-> status,
         attempts |-> Max(row.attempts, stats.total_retries),
         assigned_node_id |->
            IF Len(stats.assigned_nodes) > 0 THEN stats.assigned_nodes[1] ELSE None,
         started_at |->
            IF started_values # {} /\ row.started_at = NoTime
            THEN SetMin(started_values) ELSE row.started_at,
         completed_at |->
            IF status \in {"COMPLETED", "FAILED"} /\ completed_values # {}
            THEN SetMax(completed_values)
            ELSE IF status \notin {"COMPLETED", "FAILED"} THEN NoTime
            ELSE row.completed_at,
         error |->
            IF status = "FAILED" /\ stats.failed_tasks > 0
            THEN ToString(stats.failed_tasks) \o " tasks failed"
            ELSE IF status = "COMPLETED" THEN None
            ELSE row.error]

\* variant, not the code: started_at follows the tasks even when it is set
RefreshedJob_StartedFromTasks(row, ts, job_id) ==
    LET stats == _job_stats(ts, job_id)
        status == DerivedStatus(stats, row.status)
        rows == TasksOfJob(ts, job_id)
        started_values == {ts[t].started_at : t \in {x \in rows : ts[x].started_at # NoTime}}
        completed_values == {ts[t].completed_at : t \in {x \in rows : ts[x].completed_at # NoTime}}
    IN  [status |-> status,
         attempts |-> stats.total_retries,
         assigned_node_id |->
            IF Len(stats.assigned_nodes) > 0 THEN stats.assigned_nodes[1] ELSE None,
         started_at |->
            IF started_values # {} THEN SetMin(started_values) ELSE row.started_at,
         completed_at |->
            IF status \in {"COMPLETED", "FAILED"} /\ completed_values # {}
            THEN SetMax(completed_values)
            ELSE IF status \notin {"COMPLETED", "FAILED"} THEN NoTime
            ELSE row.completed_at,
         error |->
            IF status = "FAILED" /\ stats.failed_tasks > 0
            THEN ToString(stats.failed_tasks) \o " tasks failed"
            ELSE IF status = "COMPLETED" THEN None
            ELSE row.error]

\* the refreshed row of job_id (the job exists)
RefreshedJob(row, ts, job_id) ==
    LET stats == _job_stats(ts, job_id)
        status == DerivedStatus(stats, row.status)
        rows == TasksOfJob(ts, job_id)
        started_values == {ts[t].started_at : t \in {x \in rows : ts[x].started_at # NoTime}}
        completed_values == {ts[t].completed_at : t \in {x \in rows : ts[x].completed_at # NoTime}}
    IN  [status |-> status,
         attempts |-> stats.total_retries,
         assigned_node_id |->
            IF Len(stats.assigned_nodes) > 0 THEN stats.assigned_nodes[1] ELSE None,
         started_at |->
            IF started_values # {} /\ row.started_at = NoTime
            THEN SetMin(started_values) ELSE row.started_at,
         completed_at |->
            IF status \in {"COMPLETED", "FAILED"} /\ completed_values # {}
            THEN SetMax(completed_values)
            ELSE IF status \notin {"COMPLETED", "FAILED"} THEN NoTime
            ELSE row.completed_at,
         error |->
            IF status = "FAILED" /\ stats.failed_tasks > 0
            THEN ToString(stats.failed_tasks) \o " tasks failed"
            ELSE IF status = "COMPLETED" THEN None
            ELSE row.error]

\* _refresh_job_state_locked for every job of the set `touched`
_refresh_job_state_locked(js, ts, touched) ==
    [j \in DOMAIN js |->
        IF j \in touched THEN RefreshedJob(js[j], ts, j) ELSE js[j]]

(* --------------------------- lease recovery ---------------------------- *)

\* variant, not the code: a lease that ends exactly now counts as expired
StaleRows_Inclusive(ts, now) ==
    {t \in DOMAIN ts : /\ ts[t].status = "RUNNING"
                       /\ ts[t].lease_expires_at # NoTime
                       /\ ts[t].lease_expires_at <= now}

StaleRows(ts, now) ==
    {t \in DOMAIN ts : /\ ts[t].status = "RUNNING"
                       /\ ts[t].lease_expires_at # NoTime
                       /\ ts[t].lease_expires_at < now}

\* variant, not the code: a row requeued by an expired lease keeps its node
RecoveredRow_KeepAssignment(row, now) ==
    LET retries == row.retries + 1
    IN  IF retries > row.max_retries
        THEN [row EXCEPT !.retries = retries, !.lease_expires_at = NoTime,
                         !.error = "Task lease expired",
                         !.status = "FAILED", !.completed_at = now]
        ELSE [row EXCEPT !.retries = retries, !.lease_expires_at = NoTime,
                         !.error = "Task lease expired",
                         !.status = "QUEUED"]

\* variant, not the code: an expired lease requeues the task without counting a retry
RecoveredRow_NoCount(row, now) ==
    [row EXCEPT !.lease_expires_at = NoTime,
                !.error = "Task lease expired",
                !.status = "QUEUED", !.assigned_node_id = None]

\* variant, not the code: a row under the retry limit is left to its node, still
\* RUNNING on the expired lease
RecoveredRow_StillRunning(row, now) ==
    LET retries == row.retries + 1
    IN  IF retries > row.max_retries
        THEN [row EXCEPT !.retries = retries, !.lease_expires_at = NoTime,
                         !.error = "Task lease expired",
                         !.status = "FAILED", !.completed_at = now]
        ELSE [row EXCEPT !.retries = retries,
                         !.error = "Task lease expired"]

\* variant, not the code: the expired lease is left on the row
RecoveredRow_KeepLease(row, now) ==
    LET retries == row.retries + 1
    IN  IF retries > row.max_retries
        THEN [row EXCEPT !.retries = retries,
                         !.error = "Task lease expired",
                         !.status = "FAILED", !.completed_at = now]
        ELSE [row EXCEPT !.retries = retries,
                         !.error = "Task lease expired",
                         !.status = "QUEUED", !.assigned_node_id = None]

RecoveredRow(row, now) ==
    LET retries == row.retries + 1
    IN  IF retries > row.max_retries
        THEN [row EXCEPT !.retries = retries, !.lease_expires_at = NoTime,
                         !.error = "Task lease expired",
                         !.status = "FAILED", !.completed_at = now]
        ELSE [row EXCEPT !.retries = retries, !.lease_expires_at = NoTime,
                         !.error = "Task lease expired",
                         !.status = "QUEUED", !.assigned_node_id = None]

RecoveredTasks(ts, now) ==
    [t \in DOMAIN ts |->
        IF t \in StaleRows(ts, now) THEN RecoveredRow(ts[t], now) ELSE ts[t]]

TouchedJobs(ts, now) == {ts[t].job_id : t \in StaleRows(ts, now)}

\* _recover_stale_tasks_locked: the jobs table after the touched jobs are refreshed
RecoveredJobs(js, ts, now) ==
    _refresh_job_state_locked(js, RecoveredTasks(ts, now), TouchedJobs(ts, now))

(* ----------------------------- migrations ------------------------------ *)

\* A migration file is named by its version, the stem of NNNN_name.sql; the
\* stems are numbered, so the order of the paths is the order of the numbers.
Versions == 1 .. MaxVersions

\* the files in db/migrations when the coordinator is first started
ShippedVersions == {1, 2}

\* a database file that sqlite3.connect has just created
NewDatabase == [has_table |-> FALSE, schema_migrations |-> {}, executed |-> <<>>]

\* sorted(migrations_dir.glob("*.sql"))
RECURSIVE sorted(_)
sorted(S) ==
    IF S = {} THEN <<>> ELSE <<SetMin(S)>> \o sorted(S \ {SetMin(S)})

\* variant, not the code: the loop does not skip the applied versions
RECURSIVE MigrationLoop_NoSkip(_, _, _)
MigrationLoop_NoSkip(files, applied_versions, db) ==
    IF files = <<>> THEN db
    ELSE MigrationLoop_NoSkip(Tail(files), applied_versions,
             [db EXCEPT !.executed = Append(@, Head(files)),
                        !.schema_migrations = @ \cup {Head(files)}])

\* `for migration_file in migration_files`: a version read from the table
\* before the loop is skipped, any other file is executed (executescript)
\* and its version inserted into schema_migrations
RECURSIVE MigrationLoop(_, _, _)
MigrationLoop(files, applied_versions, db) ==
    IF files = <<>> THEN db
    ELSE LET version == Head(files)
         IN  IF version \in applied_versions
             THEN MigrationLoop(Tail(files), applied_versions, db)
             ELSE MigrationLoop(Tail(files), applied_versions,
                      [db EXCEPT !.executed = Append(@, version),
                                 !.schema_migrations = @ \cup {version}])

\* the database after apply_migrations(db_url) has committed
MigratedDatabase(db, files) ==
    LET created == [db EXCEPT !.has_table = TRUE]
    IN  MigrationLoop(sorted(files), created.schema_migrations, created)

\* apply_migrations(db_url), called by the constructor of the repository
apply_migrations ==
    /\ database' = MigratedDatabase(database, migration_files)
    /\ UNCHANGED <<clock, nodes, jobs, tasks, results, stale_nodes, subscribers, streams,
                   published, migration_files>>

\* a later release of the package adds a migration file
ship_migration(version) ==
    /\ version \notin migration_files
    /\ migration_files' = migration_files \cup {version}
    /\ UNCHANGED <<clock, nodes, jobs, tasks, results, stale_nodes, subscribers, streams,
                   published, database>>

(* ------------------------------- clock --------------------------------- *)

Init ==
    /\ clock = 0
    /\ nodes = [n \in {} |-> 0]
    /\ jobs = [j \in {} |-> 0]
    /\ tasks = [t \in {} |-> 0]
    /\ results = 0
    /\ stale_nodes = {}
    /\ subscribers = [q \in {} |-> <<>>]
    /\ streams = [q \in QueueIds |-> [pc |-> "idle", joined |-> 0, sent |-> <<>>]]
    /\ published = 0
    /\ migration_files = ShippedVersions
    /\ database = MigratedDatabase(NewDatabase, ShippedVersions)

\* before the coordinator is started for the first time: no database file yet
InitMigrate ==
    /\ clock = 0
    /\ nodes = [n \in {} |-> 0]
    /\ jobs = [j \in {} |-> 0]
    /\ tasks = [t \in {} |-> 0]
    /\ results = 0
    /\ stale_nodes = {}
    /\ subscribers = [q \in {} |-> <<>>]
    /\ streams = [q \in QueueIds |-> [pc |-> "idle", joined |-> 0, sent |-> <<>>]]
    /\ published = 0
    /\ migration_files \in SUBSET Versions
    /\ database = NewDatabase

\* time passes between two calls
Tick ==
    /\ clock < MaxTime
    /\ clock' = clock + 1
    /\ UNCHANGED <<nodes, jobs, tasks, results, stale_nodes, subscribers, streams, published, migration_files, database>>

(* ---------------------------- node registry ---------------------------- *)

\* variant, not the code: last_seen is left as it was
update_node_metrics_KeepLastSeen(node_id, metrics) ==
    /\ nodes' = [_ensure_node(nodes, node_id, _utc_now) EXCEPT
                    ![node_id].metrics = metrics,
                    ![node_id].status = "ONLINE"]
    /\ UNCHANGED <<clock, jobs, tasks, results, stale_nodes, subscribers, streams, published, migration_files, database>>

\* variant, not the code: last_seen never moves back
update_node_metrics_NewestLastSeen(node_id, metrics) ==
    /\ nodes' = [_ensure_node(nodes, node_id, _utc_now) EXCEPT
                    ![node_id].metrics = metrics,
                    ![node_id].status = "ONLINE",
                    ![node_id].last_seen =
                        IF node_id \in DOMAIN nodes
                        THEN Max(nodes[node_id].last_seen, metrics.heartbeat_ts)
                        ELSE metrics.heartbeat_ts]
    /\ UNCHANGED <<clock, jobs, tasks, results, stale_nodes, subscribers, streams, published, migration_files, database>>

update_node_metrics(node_id, metrics) ==
    /\ nodes' = [_ensure_node(nodes, node_id, _utc_now) EXCEPT
                    ![node_id].metrics = metrics,
                    ![node_id].status = "ONLINE",
                    ![node_id].last_seen = metrics.heartbeat_ts]
    /\ UNCHANGED <<clock, jobs, tasks, results, stale_nodes, subscribers, streams, published, migration_files, database>>

update_node_policy(node_id, policy) ==
    /\ nodes' = [_ensure_node(nodes, node_id, _utc_now) EXCEPT ![node_id].policy = policy]
    /\ UNCHANGED <<clock, jobs, tasks, results, stale_nodes, subscribers, streams, published, migration_files, database>>

\* variant, not the code: a node that is OFFLINE already is returned again
StaleNodes_IgnoreStatus(ns, now, stale_seconds) ==
    {n \in DOMAIN ns : ns[n].last_seen < now - stale_seconds}

\* the rows mark_offline_if_stale_nodes updates and returns
StaleNodes(ns, now, stale_seconds) ==
    {n \in DOMAIN ns : /\ ns[n].last_seen < now - stale_seconds
                       /\ ns[n].status # "OFFLINE"}

mark_offline_if_stale_nodes(ns, now, stale_seconds) ==
    [n \in DOMAIN ns |->
        IF n \in StaleNodes(ns, now, stale_seconds)
        THEN [ns[n] EXCEPT !.status = "OFFLINE"] ELSE ns[n]]

\* one pass of the monitor loop: the nodes it gets back are the ones it
\* publishes a NodeUpdateEvent for
stale_node_monitor(stale_seconds) ==
    /\ nodes' = mark_offline_if_stale_nodes(nodes, _utc_now, stale_seconds)
    /\ stale_nodes' = StaleNodes(nodes, _utc_now, stale_seconds)
    /\ UNCHANGED <<clock, jobs, tasks, results, subscribers, streams, published, migration_files, database>>

(* ------------------------------- jobs ---------------------------------- *)

JobStatusInputs == {"QUEUED"}

\* create_job where the fresh job ids are handed out in the order `order`
create_job_from(order, job_id, status) ==
    /\ Cardinality(DOMAIN jobs) < Len(order)
    /\ job_id = order[Cardinality(DOMAIN jobs) + 1]
    /\ jobs' = [j \in DOMAIN jobs \cup {job_id} |->
                  IF j = job_id
                  THEN [status |-> status, attempts |-> 0, assigned_node_id |-> None,
                        started_at |-> NoTime, completed_at |-> NoTime, error |-> None]
                  ELSE jobs[j]]
    /\ UNCHANGED <<clock, nodes, tasks, results, stale_nodes, subscribers, streams, published, migration_files, database>>

create_job(job_id, status) == create_job_from(JobOrder, job_id, status)

\* variant, not the code: a QUEUED job may be completed at once
_ALLOWED_JOB_TRANSITIONS_QueuedToCompleted ==
    [s \in JobStatus |->
        CASE s = "QUEUED" -> {"RUNNING", "COMPLETED"}
          [] s = "RUNNING" -> {"COMPLETED", "FAILED"}
          [] OTHER -> {}]

_ALLOWED_JOB_TRANSITIONS ==
    [s \in JobStatus |->
        CASE s = "QUEUED" -> {"RUNNING"}
          [] s = "RUNNING" -> {"COMPLETED", "FAILED"}
          [] OTHER -> {}]

\* the error texts a caller supplies: none, the empty string, a reason
ErrorInputs == {None, "", "oom"}

\* Python truth value of a `str | None`: None and "" are false
Truthy(x) == x # None /\ x # ""

TransitionOutcome(js, job_id, new_status) ==
    IF job_id \notin DOMAIN js THEN "KeyError"
    ELSE IF js[job_id].status = new_status THEN "same"
    ELSE IF new_status \notin _ALLOWED_JOB_TRANSITIONS[js[job_id].status]
    THEN "InvalidTransition"
    ELSE "ok"

\* variant, not the code: attempts is not incremented on the way to RUNNING
TransitionedJob_NoAttempt(row, new_status, error, now) ==
    IF new_status = "RUNNING"
    THEN [row EXCEPT !.status = new_status,
                     !.started_at = IF row.started_at # NoTime THEN row.started_at ELSE now,
                     !.error = None]
    ELSE IF new_status = "COMPLETED"
    THEN [row EXCEPT !.status = new_status, !.completed_at = now, !.error = None]
    ELSE IF new_status = "FAILED"
    THEN [row EXCEPT !.status = new_status, !.completed_at = now,
                     !.error = IF Truthy(error) THEN error
                               ELSE IF Truthy(row.error) THEN row.error
                               ELSE "Job failed"]
    ELSE [row EXCEPT !.status = new_status]

\* the row after an allowed transition to another status
TransitionedJob(row, new_status, error, now) ==
    IF new_status = "RUNNING"
    THEN [row EXCEPT !.status = new_status,
                     !.started_at = IF row.started_at # NoTime THEN row.started_at ELSE now,
                     !.attempts = row.attempts + 1,
                     !.error = None]
    ELSE IF new_status = "COMPLETED"
    THEN [row EXCEPT !.status = new_status, !.completed_at = now, !.error = None]
    ELSE IF new_status = "FAILED"
    THEN [row EXCEPT !.status = new_status, !.completed_at = now,
                     !.error = IF Truthy(error) THEN error
                               ELSE IF Truthy(row.error) THEN row.error
                               ELSE "Job failed"]
    ELSE [row EXCEPT !.status = new_status]

transition_job_status(job_id, new_status, error) ==
    LET now == _utc_now
        outcome == TransitionOutcome(jobs, job_id, new_status)
    IN  /\ UNCHANGED <<clock, nodes, tasks, results, stale_nodes, subscribers, streams, published, migration_files, database>>
        /\ IF outcome = "same"
           THEN jobs' = IF error # None THEN [jobs EXCEPT ![job_id].error = error]
                        ELSE jobs
           ELSE IF outcome = "ok"
           THEN jobs' = [jobs EXCEPT
                           ![job_id] = TransitionedJob(jobs[job_id], new_status, error, now)]
           ELSE UNCHANGED jobs

(* ------------------------------- tasks --------------------------------- *)

\* Task(...) in _to_task validates max_retries: Field(ge=0, le=20)
TaskModelValid(max_retries) == max_retries >= 0 /\ max_retries <= 20

NewTaskRow(job_id, task_type, max_retries, now) ==
    [job_id |-> job_id, type |-> task_type, status |-> "QUEUED",
     assigned_node_id |-> None, retries |-> 0, max_retries |-> max_retries,
     lease_expires_at |-> NoTime, created_at |-> now, started_at |-> NoTime,
     completed_at |-> NoTime, error |-> None]

CreateTasksOutcome(job_id, count, max_retries) ==
    IF job_id \notin DOMAIN jobs THEN "KeyError"
    ELSE IF count > 0 /\ ~TaskModelValid(max_retries) THEN "ValidationError"
    ELSE "ok"

create_tasks(job_id, task_type, count, max_retries) ==
    LET now == _utc_now
        n == Cardinality(DOMAIN tasks)
        outcome == CreateTasksOutcome(job_id, count, max_retries)
        created == [t \in 1 .. (n + count) |->
                      IF t <= n THEN tasks[t]
                      ELSE NewTaskRow(job_id, task_type, max_retries, now)]
    IN  /\ IF outcome = "ok"
           THEN /\ tasks' = created
                /\ jobs' = _refresh_job_state_locked(jobs, created, {job_id})
           ELSE UNCHANGED <<jobs, tasks>>
        /\ UNCHANGED <<clock, nodes, results, stale_nodes, subscribers, streams, published, migration_files, database>>

(* ------------------------------- pull ---------------------------------- *)

\* variant, not the code: a FAILED task is offered to the nodes again
QueuedRows_WithFailed(ts) == {t \in DOMAIN ts : ts[t].status \in {"QUEUED", "FAILED"}}

\* variant, not the code: the scan does not filter on status QUEUED alone
QueuedRows_WithRunning(ts) == {t \in DOMAIN ts : ts[t].status \in {"QUEUED", "RUNNING"}}

QueuedRows(ts) == {t \in DOMAIN ts : ts[t].status = "QUEUED"}

\* weighted_score = score_node + age / 30 s, scaled by 30000
WeightedScore(node, row, now) ==
    30 * score_node(node, row.type) + 1000 * Max(now - row.created_at, 0)

\* the orders in which the database can yield the rows S for
\* ORDER BY created_at ASC (rows of equal created_at come in any order)
ScanOrders(ts, S) ==
    {o \in [1 .. Cardinality(S) -> S] :
        \A i, j \in 1 .. Cardinality(S) :
            i < j => o[i] # o[j] /\ ts[o[i]].created_at <= ts[o[j]].created_at}

\* variant, not the code: the first eligible row is kept whatever the scores
RECURSIVE ScanFrom_KeepFirst(_, _, _, _, _, _, _)
ScanFrom_KeepFirst(order, i, k, ts, node, now, selected) ==
    IF i > k THEN selected
    ELSE IF ~evaluate_node_eligibility(node, ts[order[i]].type)
    THEN ScanFrom_KeepFirst(order, i + 1, k, ts, node, now, selected)
    ELSE IF selected = NoTask
    THEN ScanFrom_KeepFirst(order, i + 1, k, ts, node, now, order[i])
    ELSE ScanFrom_KeepFirst(order, i + 1, k, ts, node, now, selected)

\* the loop over queued_rows from position i on, `selected` being selected_row
\* (selected_score is the weighted score of that row)
RECURSIVE ScanFrom(_, _, _, _, _, _, _)
ScanFrom(order, i, k, ts, node, now, selected) ==
    IF i > k THEN selected
    ELSE IF ~evaluate_node_eligibility(node, ts[order[i]].type)
    THEN ScanFrom(order, i + 1, k, ts, node, now, selected)
    ELSE IF \/ selected = NoTask
            \/ WeightedScore(node, ts[order[i]], now) > WeightedScore(node, ts[selected], now)
    THEN ScanFrom(order, i + 1, k, ts, node, now, order[i])
    ELSE ScanFrom(order, i + 1, k, ts, node, now, selected)

\* the rows the scan of queued_rows can end up selecting
SelectableRows(ts, node, now) ==
    {ScanFrom(o, 1, Cardinality(QueuedRows(ts)), ts, node, now, NoTask) :
        o \in ScanOrders(ts, QueuedRows(ts))} \ {NoTask}

\* variant, not the code: the lease is not written
LeasedRow_NoLease(row, node_id, now, lease_seconds) ==
    [row EXCEPT !.status = "RUNNING",
                !.assigned_node_id = node_id,
                !.started_at = IF row.started_at # NoTime THEN row.started_at ELSE now]

\* variant, not the code: the pulling node is not written to the row
LeasedRow_NoAssignment(row, node_id, now, lease_seconds) ==
    [row EXCEPT !.status = "RUNNING",
                !.lease_expires_at = now + lease_seconds,
                !.started_at = IF row.started_at # NoTime THEN row.started_at ELSE now]

LeasedRow(row, node_id, now, lease_seconds) ==
    [row EXCEPT !.status = "RUNNING",
                !.assigned_node_id = node_id,
                !.lease_expires_at = now + lease_seconds,
                !.started_at = IF row.started_at # NoTime THEN row.started_at ELSE now]

PromotedJob(row, node_id, now) ==
    [row EXCEPT !.status = "RUNNING",
                !.assigned_node_id = node_id,
                !.started_at = IF row.started_at # NoTime THEN row.started_at ELSE now]

\* variant, not the code: the node is looked up before the expired leases are recovered
pull_task_for_node_NodeFirst(node_id, lease_seconds) ==
    LET now == _utc_now
        ts1 == RecoveredTasks(tasks, now)
        js1 == RecoveredJobs(jobs, tasks, now)
        selectable == IF node_id \in DOMAIN nodes
                      THEN SelectableRows(ts1, nodes[node_id], now) ELSE {}
    IN  /\ UNCHANGED <<clock, nodes, results, stale_nodes, subscribers, streams, published, migration_files, database>>
        /\ \/ /\ node_id \notin DOMAIN nodes
              /\ UNCHANGED <<jobs, tasks>>
           \/ /\ node_id \in DOMAIN nodes
              /\ selectable = {}
              /\ tasks' = ts1
              /\ jobs' = js1
           \/ \E t \in selectable :
                LET ts2 == [ts1 EXCEPT ![t] = LeasedRow(ts1[t], node_id, now, lease_seconds)]
                    j == ts1[t].job_id
                    js2 == [js1 EXCEPT ![j] = PromotedJob(js1[j], node_id, now)]
                IN  /\ tasks' = ts2
                    /\ jobs' = _refresh_job_state_locked(js2, ts2, {j})

pull_task_for_node(node_id, lease_seconds) ==
    LET now == _utc_now
        stale == StaleRows(tasks, now)
        ts1 == RecoveredTasks(tasks, now)
        js1 == RecoveredJobs(jobs, tasks, now)
        selectable == IF node_id \in DOMAIN nodes
                      THEN SelectableRows(ts1, nodes[node_id], now) ELSE {}
    IN  /\ UNCHANGED <<clock, nodes, results, stale_nodes, subscribers, streams, published, migration_files, database>>
        /\ \/ /\ selectable = {}
              /\ tasks' = ts1
              /\ jobs' = js1
           \/ \E t \in selectable :
                LET ts2 == [ts1 EXCEPT ![t] = LeasedRow(ts1[t], node_id, now, lease_seconds)]
                    j == ts1[t].job_id
                    js2 == [js1 EXCEPT ![j] = PromotedJob(js1[j], node_id, now)]
                IN  /\ tasks' = ts2
                    /\ jobs' = _refresh_job_state_locked(js2, ts2, {j})

recover_stale_tasks ==
    LET now == _utc_now
    IN  /\ UNCHANGED <<clock, nodes, results, stale_nodes, subscribers, streams, published, migration_files, database>>
        /\ tasks' = RecoveredTasks(tasks, now)
        /\ jobs' = RecoveredJobs(jobs, tasks, now)

(* ------------------------------ results -------------------------------- *)

\* variant, not the code: the assigned node is not compared with the submitter
SubmitOutcome_NoMismatchCheck(ts, task_id, node_id) ==
    IF task_id \notin DOMAIN ts THEN "KeyError"
    ELSE IF ts[task_id].status \notin {"RUNNING", "QUEUED"} THEN "NotExecutable"
    ELSE "ok"

\* variant, not the code: the status of the task is not checked
SubmitOutcome_NoStatusCheck(ts, task_id, node_id) ==
    IF task_id \notin DOMAIN ts THEN "KeyError"
    ELSE IF /\ ts[task_id].assigned_node_id # None
            /\ ts[task_id].assigned_node_id # node_id THEN "AssignmentMismatch"
    ELSE "ok"

SubmitOutcome(ts, task_id, node_id) ==
    IF task_id \notin DOMAIN ts THEN "KeyError"
    ELSE IF /\ ts[task_id].assigned_node_id # None
            /\ ts[task_id].assigned_node_id # node_id THEN "AssignmentMismatch"
    ELSE IF ts[task_id].status \notin {"RUNNING", "QUEUED"} THEN "NotExecutable"
    ELSE "ok"

\* variant, not the code: a success leaves the error of an earlier attempt on the row
SubmittedRow_KeepError(row, success, now) ==
    IF success
    THEN [row EXCEPT !.lease_expires_at = NoTime, !.status = "COMPLETED",
                     !.completed_at = now]
    ELSE IF row.retries + 1 > row.max_retries
    THEN [row EXCEPT !.lease_expires_at = NoTime, !.retries = row.retries + 1,
                     !.status = "FAILED", !.completed_at = now,
                     !.error = "Task failed after max retries"]
    ELSE [row EXCEPT !.lease_expires_at = NoTime, !.retries = row.retries + 1,
                     !.status = "QUEUED", !.assigned_node_id = None,
                     !.error = "Task execution failed; requeued"]

\* variant, not the code: retries is compared with max_retries before it is incremented
SubmittedRow_CompareBeforeIncrement(row, success, now) ==
    IF success
    THEN [row EXCEPT !.lease_expires_at = NoTime, !.status = "COMPLETED",
                     !.completed_at = now, !.error = None]
    ELSE IF row.retries > row.max_retries
    THEN [row EXCEPT !.lease_expires_at = NoTime, !.retries = row.retries + 1,
                     !.status = "FAILED", !.completed_at = now,
                     !.error = "Task failed after max retries"]
    ELSE [row EXCEPT !.lease_expires_at = NoTime, !.retries = row.retries + 1,
                     !.status = "QUEUED", !.assigned_node_id = None,
                     !.error = "Task execution failed; requeued"]

\* variant, not the code: a requeued row keeps its assigned node
SubmittedRow_KeepAssignment(row, success, now) ==
    IF success
    THEN [row EXCEPT !.lease_expires_at = NoTime, !.status = "COMPLETED",
                     !.completed_at = now, !.error = None]
    ELSE IF row.retries + 1 > row.max_retries
    THEN [row EXCEPT !.lease_expires_at = NoTime, !.retries = row.retries + 1,
                     !.status = "FAILED", !.completed_at = now,
                     !.error = "Task failed after max retries"]
    ELSE [row EXCEPT !.lease_expires_at = NoTime, !.retries = row.retries + 1,
                     !.status = "QUEUED",
                     !.error = "Task execution failed; requeued"]

SubmittedRow(row, success, now) ==
    IF success
    THEN [row EXCEPT !.lease_expires_at = NoTime, !.status = "COMPLETED",
                     !.completed_at = now, !.error = None]
    ELSE IF row.retries + 1 > row.max_retries
    THEN [row EXCEPT !.lease_expires_at = NoTime, !.retries = row.retries + 1,
                     !.status = "FAILED", !.completed_at = now,
                     !.error = "Task failed after max retries"]
    ELSE [row EXCEPT !.lease_expires_at = NoTime, !.retries = row.retries + 1,
                     !.status = "QUEUED", !.assigned_node_id = None,
                     !.error = "Task execution failed; requeued"]

\* variant, not the code: the expired leases are recovered before the result is looked at
submit_task_result_RecoverFirst(task_id, node_id, success) ==
    LET now == _utc_now
        ts0 == RecoveredTasks(tasks, now)
        js0 == RecoveredJobs(jobs, tasks, now)
        outcome == SubmitOutcome(ts0, task_id, node_id)
    IN  /\ UNCHANGED <<clock, nodes, stale_nodes, subscribers, streams, published, migration_files, database>>
        /\ IF outcome = "ok"
           THEN LET ts1 == [ts0 EXCEPT ![task_id] = SubmittedRow(ts0[task_id], success, now)]
                IN  /\ results' = results + 1
                    /\ tasks' = ts1
                    /\ jobs' = _refresh_job_state_locked(js0, ts1, {ts0[task_id].job_id})
           ELSE /\ tasks' = ts0
                /\ jobs' = js0
                /\ UNCHANGED results

submit_task_result(task_id, node_id, success) ==
    LET now == _utc_now
        outcome == SubmitOutcome(tasks, task_id, node_id)
    IN  /\ UNCHANGED <<clock, nodes, stale_nodes, subscribers, streams, published, migration_files, database>>
        /\ IF outcome = "ok"
           THEN LET ts1 == [tasks EXCEPT ![task_id] = SubmittedRow(tasks[task_id], success, now)]
                IN  /\ results' = results + 1
                    /\ tasks' = ts1
                    /\ jobs' = _refresh_job_state_locked(jobs, ts1, {tasks[task_id].job_id})
           ELSE UNCHANGED <<jobs, tasks, results>>

(* --------------------- capabilities and capacity ----------------------- *)

GB(x) == 1000 * x

\* capability payloads that pass the field validation of NodeCapabilities
CapabilitiesInputs ==
    {DefaultCapabilities,
     [DefaultCapabilities EXCEPT !.cpu_threads = 16, !.ram_total_gb = GB(32),
                                 !.vram_total_gb = GB(24)],
     [DefaultCapabilities EXCEPT !.has_gpu = TRUE, !.cpu_cores = 8, !.ram_gb = GB(32),
                                 !.gpu_name = "RTX"],
     [DefaultCapabilities EXCEPT !.has_gpu = TRUE],
     [DefaultCapabilities EXCEPT !.cpu_threads = 8, !.ram_total_gb = 0, !.ram_gb = 1,
                                 !.gpu_name = ""]}

\* variant, not the code: has_gpu is left as the payload gave it
normalize_KeepHasGpu(c) ==
    LET c1 == IF c.ram_total_gb = NoNum /\ c.ram_gb # NoNum
              THEN [c EXCEPT !.ram_total_gb = c.ram_gb] ELSE c
        c2 == IF c1.ram_gb = NoNum /\ c1.ram_total_gb # NoNum
              THEN [c1 EXCEPT !.ram_gb = c1.ram_total_gb] ELSE c1
    IN  c2

\* NodeCapabilities.normalize, the validator run after field validation
normalize(c) ==
    LET c1 == IF c.ram_total_gb = NoNum /\ c.ram_gb # NoNum
              THEN [c EXCEPT !.ram_total_gb = c.ram_gb] ELSE c
        c2 == IF c1.ram_gb = NoNum /\ c1.ram_total_gb # NoNum
              THEN [c1 EXCEPT !.ram_gb = c1.ram_total_gb] ELSE c1
    IN  IF Truthy(c2.gpu_name) \/ c2.vram_total_gb # NoNum
        THEN [c2 EXCEPT !.has_gpu = TRUE] ELSE c2

upsert_node_capabilities(node_id, capabilities) ==
    /\ UNCHANGED <<clock, jobs, tasks, results, stale_nodes, subscribers, streams, published, migration_files, database>>
    /\ nodes' = [_ensure_node(nodes, node_id, _utc_now) EXCEPT
                    ![node_id].capabilities = normalize(capabilities)]

\* Python `a or b` on `int | float | None`: None and 0 are false
OrNum(a, b) == IF a # NoNum /\ a # 0 THEN a ELSE b

\* round(x, 3) of a quantity given in 1e-5 units (ties do not occur in the inputs)
Round3(x) == ((x + 50) \div 100) * 100

\* variant, not the code: a GPU cap of 0 counts as no cap
GpuCapPercent_ZeroAsNone(policy) ==
    IF policy.gpu_cap_percent # NoPct /\ policy.gpu_cap_percent # 0
    THEN policy.gpu_cap_percent ELSE 100

GpuCapPercent(policy) ==
    IF policy.gpu_cap_percent # NoPct THEN policy.gpu_cap_percent ELSE 100

\* the capacities are in 1e-5 units: thousandths (of a thread, of a GB) times
\* a percentage
compute_effective_capacity(node) ==
    LET cpu_threads == OrNum(node.capabilities.cpu_threads,
                             OrNum(node.capabilities.cpu_cores, 0))
        ram_total == OrNum(node.capabilities.ram_total_gb,
                           OrNum(node.capabilities.ram_gb, 0))
        vram_total == node.capabilities.vram_total_gb
    IN  [effective_cpu_threads |-> Round3(1000 * cpu_threads * node.policy.cpu_cap_percent),
         effective_ram_gb |-> Round3(ram_total * node.policy.ram_cap_percent),
         effective_vram_gb |->
            IF vram_total # NoNum
            THEN Round3(vram_total * GpuCapPercent(node.policy))
            ELSE NoNum]

\* policies with other caps than the default
CapacityPolicyInputs ==
    {DefaultPolicy,
     [DefaultPolicy EXCEPT !.cpu_cap_percent = 50, !.ram_cap_percent = 80,
                           !.gpu_cap_percent = 75],
     [DefaultPolicy EXCEPT !.gpu_cap_percent = 0],
     [DefaultPolicy EXCEPT !.enabled = FALSE]}

(* --------------------------- cluster summary --------------------------- *)

\* variant, not the code: only the node status is looked at
SummarySkips_StatusOnly(node) == node.status # "ONLINE"

\* the `continue` of the loop of cluster_summary
SummarySkips(node) == ~node.policy.enabled \/ node.status # "ONLINE"

\* the loop of cluster_summary over get_nodes() (ordered by node_id) from
\* position i on, with the totals so far
RECURSIVE SummaryLoop(_, _, _)
SummaryLoop(ns, i, totals) ==
    IF i > Len(NodeOrder) THEN totals
    ELSE IF NodeOrder[i] \notin DOMAIN ns \/ SummarySkips(ns[NodeOrder[i]])
    THEN SummaryLoop(ns, i + 1, totals)
    ELSE LET capacity == compute_effective_capacity(ns[NodeOrder[i]])
         IN  SummaryLoop(ns, i + 1,
                [total_effective_cpu_threads |->
                    totals.total_effective_cpu_threads + capacity.effective_cpu_threads,
                 total_effective_ram_gb |->
                    totals.total_effective_ram_gb + capacity.effective_ram_gb,
                 total_effective_vram_gb |->
                    IF capacity.effective_vram_gb # NoNum
                    THEN totals.total_effective_vram_gb + capacity.effective_vram_gb
                    ELSE totals.total_effective_vram_gb])

\* GET /v1/cluster/summary (running_jobs is not carried by the metrics here)
cluster_summary(ns) ==
    LET totals == SummaryLoop(ns, 1, [total_effective_cpu_threads |-> 0,
                                      total_effective_ram_gb |-> 0,
                                      total_effective_vram_gb |-> 0])
    IN  [total_nodes |-> Cardinality(DOMAIN ns),
         online_nodes |-> Cardinality({n \in DOMAIN ns : ns[n].status = "ONLINE"}),
         offline_nodes |-> Cardinality({n \in DOMAIN ns : ns[n].status = "OFFLINE"}),
         total_effective_cpu_threads |-> Round3(totals.total_effective_cpu_threads),
         total_effective_ram_gb |-> Round3(totals.total_effective_ram_gb),
         total_effective_vram_gb |-> Round3(totals.total_effective_vram_gb)]

(* ------------------------------ event bus ------------------------------ *)

(* One bus (node_event_bus and job_event_bus are two instances of the same  *)
(* class, with no ordering between them).  Events are numbered in publish   *)
(* order by `published`.  The publish calls of the handlers and of the      *)
(* monitor reach no queue while no stream is open, which is the case in     *)
(* every specification but the one of the bus, where publishing is the      *)
(* action `publish`, whichever handler makes the call.                      *)

\* subscribe(): a new empty queue joins the set of subscriber queues
EventBus_subscribe(subs, q) ==
    [p \in DOMAIN subs \cup {q} |-> IF p = q THEN <<>> ELSE subs[p]]

\* variant, not the bus: the event goes to the front of each queue
EventBus_publish_Front(subs, event) ==
    [p \in DOMAIN subs |-> <<event>> \o subs[p]]

\* publish(event): the event is enqueued to every current subscriber
EventBus_publish(subs, event) ==
    [p \in DOMAIN subs |-> Append(subs[p], event)]

\* unsubscribe(queue): the queue leaves the set
EventBus_unsubscribe(subs, q) ==
    [p \in DOMAIN subs \ {q} |-> subs[p]]

\* `await bus.publish(event)` of a handler or of the monitor
publish ==
    /\ published < MaxEvents
    /\ published' = published + 1
    /\ subscribers' = EventBus_publish(subscribers, published + 1)
    /\ UNCHANGED <<clock, nodes, jobs, tasks, results, stale_nodes, streams, migration_files, database>>

\* the generator of a stream starts: `queue = await bus.subscribe()`
stream_subscribe(q) ==
    /\ streams[q].pc = "idle"
    /\ subscribers' = EventBus_subscribe(subscribers, q)
    /\ streams' = [streams EXCEPT ![q].pc = "open", ![q].joined = published]
    /\ UNCHANGED <<clock, nodes, jobs, tasks, results, stale_nodes, published, migration_files, database>>

\* variant, not the code: the event is read but stays in the queue
stream_event_Peek(q) ==
    /\ streams[q].pc = "open"
    /\ q \in DOMAIN subscribers
    /\ subscribers[q] # <<>>
    /\ streams' = [streams EXCEPT ![q].sent = Append(@, Head(subscribers[q]))]
    /\ UNCHANGED <<clock, nodes, jobs, tasks, results, stale_nodes, published, subscribers, migration_files, database>>

\* one turn of the loop: `event = await queue.get()` and the event is sent
\* (a turn that times out sends a keep-alive and changes nothing)
stream_event(q) ==
    /\ streams[q].pc = "open"
    /\ q \in DOMAIN subscribers
    /\ subscribers[q] # <<>>
    /\ streams' = [streams EXCEPT ![q].sent = Append(@, Head(subscribers[q]))]
    /\ subscribers' = [subscribers EXCEPT ![q] = Tail(@)]
    /\ UNCHANGED <<clock, nodes, jobs, tasks, results, stale_nodes, published, migration_files, database>>

\* the client is gone: the loop breaks and `finally` unsubscribes the queue
stream_disconnect(q) ==
    /\ streams[q].pc = "open"
    /\ subscribers' = EventBus_unsubscribe(subscribers, q)
    /\ streams' = [streams EXCEPT ![q].pc = "closed"]
    /\ UNCHANGED <<clock, nodes, jobs, tasks, results, stale_nodes, published, migration_files, database>>

(* ------------------------- agent shared secret ------------------------- *)

\* strings are sequences of characters; "e-acute" stands for any character
\* outside ASCII
IsAscii(c) == c # "e-acute"

\* the request carries no X-EdgeMesh-Secret header
NoHeader == <<None>>

\* values of EDGE_MESH_SHARED_SECRET; the empty string is what os.getenv
\* gives when the variable is not set
SecretEnvInputs == {<<>>, <<" ">>, <<"s">>, <<"s", " ">>, <<"e-acute">>}

HeaderInputs == {NoHeader, <<>>, <<"s">>, <<"x">>, <<" ", "s">>, <<"e-acute">>}

RECURSIVE StripLeft(_)
StripLeft(s) == IF s = <<>> \/ Head(s) # " " THEN s ELSE StripLeft(Tail(s))

RECURSIVE StripRight(_)
StripRight(s) ==
    IF s = <<>> \/ s[Len(s)] # " " THEN s ELSE StripRight(SubSeq(s, 1, Len(s) - 1))

\* str.strip()
strip(s) == StripRight(StripLeft(s))

\* hmac.compare_digest on str arguments: TypeError unless both are ASCII
compare_digest(a, b) ==
    IF \E i \in 1 .. Len(a) : ~IsAscii(a[i]) THEN "TypeError"
    ELSE IF \E i \in 1 .. Len(b) : ~IsAscii(b[i]) THEN "TypeError"
    ELSE IF a = b THEN "True" ELSE "False"

\* the HTTP outcome of the dependency: "pass" lets the handler run, "401" is
\* the HTTPException, "500" the unhandled TypeError
require_agent_secret(env, x_edgemesh_secret) ==
    LET expected == strip(env)
        provided == strip(IF x_edgemesh_secret = NoHeader THEN <<>> ELSE x_edgemesh_secret)
    IN  IF expected = <<>> THEN "pass"
        ELSE CASE compare_digest(provided, expected) = "TypeError" -> "500"
               [] compare_digest(provided, expected) = "False" -> "401"
               [] OTHER -> "pass"

\* the HTTP status of POST /v1/tasks/pull
pull_task_status(env, x_edgemesh_secret) ==
    IF require_agent_secret(env, x_edgemesh_secret) # "pass"
    THEN require_agent_secret(env, x_edgemesh_secret)
    ELSE "200"

\* the HTTP status of POST /v1/tasks/{task_id}/result
submit_result_status(env, x_edgemesh_secret, task_id, node_id) ==
    IF require_agent_secret(env, x_edgemesh_secret) # "pass"
    THEN require_agent_secret(env, x_edgemesh_secret)
    ELSE CASE SubmitOutcome(tasks, task_id, node_id) = "ok" -> "200"
           [] SubmitOutcome(tasks, task_id, node_id) = "KeyError" -> "404"
           [] OTHER -> "409"

\* POST /v1/tasks/pull
pull_task(env, x_edgemesh_secret, node_id, lease_seconds) ==
    IF require_agent_secret(env, x_edgemesh_secret) = "pass"
    THEN pull_task_for_node(node_id, lease_seconds)
    ELSE UNCHANGED vars

\* POST /v1/tasks/{task_id}/result
submit_result(env, x_edgemesh_secret, task_id, node_id, success) ==
    IF require_agent_secret(env, x_edgemesh_secret) = "pass"
    THEN submit_task_result(task_id, node_id, success)
    ELSE UNCHANGED vars

(* --------------------------- specification ----------------------------- *)

Next ==
    \/ Tick
    \/ \E n \in NodeIds, m \in MetricsInputs : update_node_metrics(n, m)
    \/ \E j \in JobIds, s \in JobStatusInputs : create_job(j, s)
    \/ \E j \in JobIds, ty \in TaskTypeInputs, k \in 0 .. MaxTasks, mr \in MaxRetriesInputs :
          Cardinality(DOMAIN tasks) + k <= MaxTasks /\ create_tasks(j, ty, k, mr)
    \/ \E n \in NodeIds, ls \in LeaseSecondsInputs : pull_task_for_node(n, ls)
    \/ recover_stale_tasks
    \/ \E t \in TaskIds, n \in NodeIds, ok \in BOOLEAN : submit_task_result(t, n, ok)

Spec == Init /\ [][Next]_vars

\* the scheduler under node policies: one registered node n1 (n2 never
\* registers), tasks of two types created one at a time with max_retries = 0
SchedNodeIds == {"n1"}
SchedTaskTypeInputs == {"EMBEDDINGS", "INFERENCE"}

NextSched ==
    \/ Tick
    \/ \E n \in SchedNodeIds, m \in GpuMetricsInputs : update_node_metrics(n, m)
    \/ \E n \in SchedNodeIds, p \in PolicyInputs : update_node_policy(n, p)
    \/ \E ss \in StaleSecondsInputs : stale_node_monitor(ss)
    \/ \E j \in JobIds, s \in JobStatusInputs : create_job(j, s)
    \/ \E j \in JobIds, ty \in SchedTaskTypeInputs :
          Cardinality(DOMAIN tasks) + 1 <= MaxSchedTasks /\ create_tasks(j, ty, 1, 0)
    \/ \E n \in NodeIds : pull_task_for_node(n, 1)

SpecSched == Init /\ [][NextSched]_vars

\* manual job transitions next to the task life cycle: one node, tasks created
\* one at a time with max_retries = 0, jobs created QUEUED or CANCELLED
JobNodeIds == {"n1"}
CreatedJobStatusInputs == {"QUEUED", "CANCELLED"}

NextJobs ==
    \/ Tick
    \/ \E n \in JobNodeIds, m \in MetricsInputs : update_node_metrics(n, m)
    \/ \E j \in JobIds, s \in CreatedJobStatusInputs : create_job(j, s)
    \/ \E j \in JobIds, ns \in JobStatus, err \in ErrorInputs :
          transition_job_status(j, ns, err)
    \/ \E j \in JobIds, ty \in TaskTypeInputs :
          Cardinality(DOMAIN tasks) + 1 <= MaxTasks /\ create_tasks(j, ty, 1, 0)
    \/ \E n \in JobNodeIds : pull_task_for_node(n, 1)
    \/ recover_stale_tasks
    \/ \E t \in TaskIds, n \in JobNodeIds, ok \in BOOLEAN : submit_task_result(t, n, ok)

SpecJobs == Init /\ [][NextJobs]_vars

\* the node registry and its liveness monitor
NextNodes ==
    \/ Tick
    \/ \E n \in NodeIds, m \in HeartbeatInputs(clock) : update_node_metrics(n, m)
    \/ \E n \in NodeIds, p \in NodePolicyInputs : update_node_policy(n, p)
    \/ \E ss \in StaleSecondsInputs : stale_node_monitor(ss)

SpecNodes == Init /\ [][NextNodes]_vars

\* one node whose status, metrics and policy range over the inputs of
\* evaluate_node_eligibility
EligibilityMetricsInputs == MetricsInputs \cup GpuMetricsInputs

NextEligibility ==
    \/ Tick
    \/ \E m \in EligibilityMetricsInputs : update_node_metrics("n1", m)
    \/ \E p \in PolicyInputs : update_node_policy("n1", p)
    \/ \E ss \in StaleSecondsInputs : stale_node_monitor(ss)

SpecEligibility == Init /\ [][NextEligibility]_vars

\* the agent routes behind the shared secret: one node, one job, tasks
\* created one at a time
AuthNodeIds == {"n1"}
AuthLeaseSecondsInputs == {1}
AuthMaxRetriesInputs == {0, 1}

NextAuth ==
    \/ Tick
    \/ \E n \in AuthNodeIds, m \in MetricsInputs : update_node_metrics(n, m)
    \/ \E j \in JobIds, s \in JobStatusInputs : create_job(j, s)
    \/ \E j \in JobIds, ty \in TaskTypeInputs, mr \in AuthMaxRetriesInputs :
          Cardinality(DOMAIN tasks) + 1 <= MaxTasks /\ create_tasks(j, ty, 1, mr)
    \/ \E env \in SecretEnvInputs, h \in HeaderInputs, n \in AuthNodeIds,
          ls \in AuthLeaseSecondsInputs : pull_task(env, h, n, ls)
    \/ \E env \in SecretEnvInputs, h \in HeaderInputs, t \in TaskIds, n \in AuthNodeIds,
          ok \in BOOLEAN : submit_result(env, h, t, n, ok)

SpecAuth == Init /\ [][NextAuth]_vars

\* one node whose capabilities and policy range over the inputs of
\* compute_effective_capacity
CapacityNodeIds == {"n1"}

NextCapacity ==
    \/ Tick
    \/ \E n \in CapacityNodeIds, c \in CapabilitiesInputs : upsert_node_capabilities(n, c)
    \/ \E n \in CapacityNodeIds, m \in MetricsInputs : update_node_metrics(n, m)
    \/ \E n \in CapacityNodeIds, p \in CapacityPolicyInputs : update_node_policy(n, p)
    \/ \E ss \in StaleSecondsInputs : stale_node_monitor(ss)

SpecCapacity == Init /\ [][NextCapacity]_vars

\* two nodes under the cluster summary
ClusterCapabilitiesInputs ==
    {[DefaultCapabilities EXCEPT !.cpu_threads = 16, !.ram_total_gb = GB(32),
                                 !.vram_total_gb = GB(24)],
     [DefaultCapabilities EXCEPT !.has_gpu = TRUE, !.cpu_cores = 8, !.ram_gb = GB(32),
                                 !.gpu_name = "RTX"]}

ClusterPolicyInputs ==
    {DefaultPolicy,
     [DefaultPolicy EXCEPT !.cpu_cap_percent = 50, !.ram_cap_percent = 80,
                           !.gpu_cap_percent = 75],
     [DefaultPolicy EXCEPT !.enabled = FALSE]}

NextCluster ==
    \/ Tick
    \/ \E n \in NodeIds, c \in ClusterCapabilitiesInputs : upsert_node_capabilities(n, c)
    \/ \E n \in NodeIds, m \in MetricsInputs : update_node_metrics(n, m)
    \/ \E n \in NodeIds, p \in ClusterPolicyInputs : update_node_policy(n, p)
    \/ \E ss \in StaleSecondsInputs : stale_node_monitor(ss)

SpecCluster == Init /\ [][NextCluster]_vars

\* the event bus with its streams
NextBus ==
    \/ publish
    \/ \E q \in QueueIds : stream_subscribe(q)
    \/ \E q \in QueueIds : stream_event(q)
    \/ \E q \in QueueIds : stream_disconnect(q)

SpecBus == Init /\ [][NextBus]_vars

\* two jobs side by side: manual transitions of one next to the task life
\* cycle of the other (create_tasks with an empty payload list included)
FrameJobOrder == <<"j1", "j2">>
FrameJobIds == {"j1", "j2"}
FrameNodeIds == {"n1"}
FrameStatusInputs == {"RUNNING", "CANCELLED"}

NextFrame ==
    \/ Tick
    \/ \E n \in FrameNodeIds, m \in MetricsInputs : update_node_metrics(n, m)
    \/ \E j \in FrameJobIds, s \in JobStatusInputs : create_job_from(FrameJobOrder, j, s)
    \/ \E j \in FrameJobIds, ns \in FrameStatusInputs : transition_job_status(j, ns, None)
    \/ \E j \in FrameJobIds, ty \in TaskTypeInputs, k \in {0, 1} :
          Cardinality(DOMAIN tasks) + k <= MaxTasks /\ create_tasks(j, ty, k, 0)
    \/ \E n \in FrameNodeIds : pull_task_for_node(n, 1)
    \/ recover_stale_tasks
    \/ \E t \in TaskIds, n \in FrameNodeIds, ok \in BOOLEAN :
          submit_task_result(t, n, ok)

SpecFrame == Init /\ [][NextFrame]_vars

\* two nodes sharing the tasks of one job; a failed result requeues a task
\* that has a retry left and clears its assignment
AssignTaskIds == 1 .. MaxSchedTasks
AssignMaxRetriesInputs == {0, 1}

NextAssign ==
    \/ \E n \in NodeIds, m \in MetricsInputs : update_node_metrics(n, m)
    \/ \E j \in JobIds, s \in JobStatusInputs : create_job(j, s)
    \/ \E j \in JobIds, ty \in TaskTypeInputs, mr \in AssignMaxRetriesInputs :
          Cardinality(DOMAIN tasks) + 1 <= MaxSchedTasks /\ create_tasks(j, ty, 1, mr)
    \/ \E n \in NodeIds : pull_task_for_node(n, 1)
    \/ \E t \in AssignTaskIds, n \in NodeIds, ok \in BOOLEAN : submit_task_result(t, n, ok)

SpecAssign == Init /\ [][NextAssign]_vars

\* Starts of the coordinator on one database file, between which releases add
\* migration files.
NextMigrate ==
    \/ apply_migrations
    \/ \E version \in Versions : ship_migration(version)

SpecMigrate == InitMigrate /\ [][NextMigrate]_vars

\* The coordinator run without end.  The clock counts up to MaxTime and from
\* then on the origin of time moves instead: every stored timestamp goes one
\* second back, down to 0.  A lease that had expired stays expired and one that
\* had not expires as late as before; the age of a row stops growing at MaxTime.
Rebased(x) == IF x = NoTime THEN NoTime ELSE Max(x - 1, 0)

RebasedTasks ==
    [t \in DOMAIN tasks |->
        [tasks[t] EXCEPT !.lease_expires_at = Rebased(@), !.created_at = Rebased(@),
                         !.started_at = Rebased(@), !.completed_at = Rebased(@)]]

RebasedJobs ==
    [j \in DOMAIN jobs |->
        [jobs[j] EXCEPT !.started_at = Rebased(@), !.completed_at = Rebased(@)]]

RebasedNodes ==
    [n \in DOMAIN nodes |->
        [nodes[n] EXCEPT !.last_seen = Rebased(@), !.metrics.heartbeat_ts = Rebased(@)]]

TickLive ==
    IF clock < MaxTime
    THEN Tick
    ELSE /\ tasks' = RebasedTasks
         /\ jobs' = RebasedJobs
         /\ nodes' = RebasedNodes
         /\ UNCHANGED <<clock, results, stale_nodes, subscribers, streams, published,
                        migration_files, database>>

\* one agent, n1, whose heartbeats keep it eligible, and tasks created with
\* max_retries 0 or 1
LiveNodeIds == {"n1"}
LiveTaskIds == TaskIds
LiveMaxRetriesInputs == {0, 1}

LivePull == \E ls \in LeaseSecondsInputs : pull_task_for_node("n1", ls)

LiveHeartbeat == \E m \in MetricsInputs : update_node_metrics("n1", m)

NextLive ==
    \/ TickLive
    \/ LiveHeartbeat
    \/ \E j \in JobIds : create_job(j, "QUEUED")
    \/ \E j \in JobIds, ty \in TaskTypeInputs, mr \in LiveMaxRetriesInputs :
          Cardinality(DOMAIN tasks) + 1 <= MaxTasks /\ create_tasks(j, ty, 1, mr)
    \/ LivePull
    \/ recover_stale_tasks
    \/ \E t \in LiveTaskIds, n \in LiveNodeIds, ok \in BOOLEAN : submit_task_result(t, n, ok)

\* time passes, the agent loop of n1 keeps sending heartbeats and pulling, and
\* stale_task_monitor keeps calling recover_stale_tasks; nothing obliges an
\* agent to submit a result
SpecLive ==
    /\ Init
    /\ [][NextLive]_vars
    /\ WF_vars(TickLive)
    /\ WF_vars(LiveHeartbeat)
    /\ WF_vars(LivePull)
    /\ WF_vars(recover_stale_tasks)










(* ------------------------------ claims --------------------------------- *)

Expired(row, now) ==
    row.status = "RUNNING" /\ row.lease_expires_at # NoTime /\ row.lease_expires_at < now

\* C1: a lease is exclusive.  A task that is RUNNING for one node is RUNNING
\* for another node one step later only if the first node's lease had expired
\* (the pull that re-leased it first recovered it); in every other step the
\* lessee of a RUNNING task stays the same, whatever the order of pulls,
\* results and recoveries.
C1_LeaseExclusive ==
    [][\A t \in DOMAIN tasks :
          (/\ tasks[t].status = "RUNNING"
           /\ tasks'[t].status = "RUNNING"
           /\ tasks'[t].assigned_node_id # tasks[t].assigned_node_id)
          => Expired(tasks[t], clock)]_vars

\* a task re-leased to n2 after an expired lease was recovered, its new lease
\* still running, while n1 is ONLINE and pulling is open to it
C1_Witness ==
    \E t \in DOMAIN tasks :
        /\ tasks[t].status = "RUNNING"
        /\ tasks[t].assigned_node_id = "n2"
        /\ tasks[t].error = "Task lease expired"
        /\ tasks[t].lease_expires_at >= clock
        /\ "n1" \in DOMAIN nodes
        /\ nodes["n1"].status = "ONLINE"

\* C2: every RUNNING task has an assigned node and a lease.
C2_RunningHasLease ==
    \A t \in DOMAIN tasks :
        tasks[t].status = "RUNNING"
        => tasks[t].assigned_node_id # None /\ tasks[t].lease_expires_at # NoTime

C2_Witness ==
    \E t \in DOMAIN tasks : tasks[t].status = "RUNNING" /\ tasks[t].retries > 0

\* C3: every RUNNING task has lease_expires_at strictly later than started_at.
C3_LeaseAfterStart ==
    \A t \in DOMAIN tasks :
        tasks[t].status = "RUNNING"
        => tasks[t].lease_expires_at > tasks[t].started_at

\* C4: every QUEUED or FAILED task has no lease.
C4_IdleHasNoLease ==
    \A t \in DOMAIN tasks :
        tasks[t].status \in {"QUEUED", "FAILED"} => tasks[t].lease_expires_at = NoTime

\* a task that was leased and is QUEUED or FAILED again
C4_Witness ==
    \E t \in DOMAIN tasks :
        /\ tasks[t].status \in {"QUEUED", "FAILED"}
        /\ tasks[t].started_at # NoTime
        /\ tasks[t].retries > 0

\* C5: retries never exceeds max_retries + 1.
C5_RetryBound ==
    \A t \in DOMAIN tasks : tasks[t].retries <= tasks[t].max_retries + 1

C5_Witness ==
    \E t \in DOMAIN tasks :
        tasks[t].retries = tasks[t].max_retries + 1 /\ tasks[t].max_retries = 1

\* C6: once retries exceeds max_retries, it stays so and the task is not
\* QUEUED in the next state (hence in no later state).
C6_NoRequeueAfterExhaustion ==
    [][\A t \in DOMAIN tasks :
          tasks[t].retries > tasks[t].max_retries
          => /\ tasks'[t].retries > tasks'[t].max_retries
             /\ tasks'[t].status # "QUEUED"]_vars

C6_Witness ==
    \E t \in DOMAIN tasks :
        /\ tasks[t].retries > tasks[t].max_retries
        /\ tasks[t].status = "FAILED"
        /\ clock > tasks[t].completed_at

\* C7: the four status counts of a job returned by the store add up to its
\* total_tasks, which is the number of tasks the job owns.
C7_JobTotalsCoherent ==
    \A j \in DOMAIN jobs :
        LET stats == _job_stats(tasks, j)
        IN  /\ stats.queued_tasks + stats.running_tasks
               + stats.completed_tasks + stats.failed_tasks = stats.total_tasks
            /\ stats.total_tasks = Cardinality({t \in DOMAIN tasks : tasks[t].job_id = j})

C7_Witness ==
    \E j \in DOMAIN jobs :
        _job_stats(tasks, j).completed_tasks > 0 /\ jobs[j].assigned_node_id # None

\* the status the claim derives for a job from its tasks
ClaimedJobStatus(ts, j) ==
    LET stats == _job_stats(ts, j)
    IN  IF stats.completed_tasks = stats.total_tasks THEN "COMPLETED"
        ELSE IF stats.failed_tasks > 0 /\ stats.queued_tasks + stats.running_tasks = 0
        THEN "FAILED"
        ELSE IF \E t \in TasksOfJob(ts, j) : ts[t].started_at # NoTime THEN "RUNNING"
        ELSE "QUEUED"

TaskMutated(t) == t \notin DOMAIN tasks \/ tasks'[t] # tasks[t]

\* C8: after a step that mutates a task of a job, the job's status is
\* COMPLETED when completed = total, else FAILED when failed > 0 and
\* queued + running = 0, else RUNNING when any task has started, else QUEUED.
C8_StatusDerivation ==
    [][\A t \in DOMAIN tasks' :
          TaskMutated(t)
          => jobs'[tasks'[t].job_id].status = ClaimedJobStatus(tasks', tasks'[t].job_id)]_vars

\* C9: an accepted failure result adds one to retries; the task is then FAILED
\* with completed_at set and error "Task failed after max retries" when the new
\* retries exceeds max_retries, and QUEUED, unassigned, with error
\* "Task execution failed; requeued" otherwise.
C9_FailureResult ==
    [][\A t \in DOMAIN tasks, n \in NodeIds :
          (SubmitOutcome(tasks, t, n) = "ok" /\ submit_task_result(t, n, FALSE))
          => /\ tasks'[t].retries = tasks[t].retries + 1
             /\ IF tasks'[t].retries > tasks[t].max_retries
                THEN /\ tasks'[t].status = "FAILED"
                     /\ tasks'[t].completed_at = clock
                     /\ tasks'[t].error = "Task failed after max retries"
                ELSE /\ tasks'[t].status = "QUEUED"
                     /\ tasks'[t].assigned_node_id = None
                     /\ tasks'[t].error = "Task execution failed; requeued"]_vars

\* max_retries = 1: the second failure has failed the task with retries = 2
C9_Witness ==
    \E t \in DOMAIN tasks :
        /\ tasks[t].max_retries = 1
        /\ tasks[t].retries = 2
        /\ tasks[t].status = "FAILED"
        /\ tasks[t].error = "Task failed after max retries"

\* what recovery does to the expired task row `t` in a step
RecoveredAsClaimed(t) ==
    /\ tasks'[t].retries = tasks[t].retries + 1
    /\ tasks'[t].lease_expires_at = NoTime
    /\ tasks'[t].error = "Task lease expired"
    /\ IF tasks[t].retries + 1 <= tasks[t].max_retries
       THEN tasks'[t].status = "QUEUED" /\ tasks'[t].assigned_node_id = None
       ELSE tasks'[t].status = "FAILED"

\* the same, when the pull that recovered the row also leased it again
RecoveredAndLeased(t, n, ls) ==
    /\ tasks[t].retries + 1 <= tasks[t].max_retries
    /\ tasks'[t] = [tasks[t] EXCEPT !.retries = tasks[t].retries + 1,
                                    !.error = "Task lease expired",
                                    !.status = "RUNNING",
                                    !.assigned_node_id = n,
                                    !.lease_expires_at = clock + ls]

\* the rule of C10 for a step of recover_stale_tasks
RecoveryRule ==
    \A t \in DOMAIN tasks :
        IF Expired(tasks[t], clock) THEN RecoveredAsClaimed(t)
        ELSE tasks'[t] = tasks[t]

\* the rule of C10 for a step of pull_task_for_node(n, ls)
PullRecoveryRule(n, ls) ==
    \A t \in DOMAIN tasks :
        IF Expired(tasks[t], clock)
        THEN RecoveredAsClaimed(t) \/ RecoveredAndLeased(t, n, ls)
        ELSE tasks[t].status = "RUNNING" => tasks'[t] = tasks[t]

\* C10: recover_stale_tasks, and the recovery at the start of a pull, treats
\* every RUNNING task whose lease is earlier than now as a failure (retries + 1,
\* lease cleared, error "Task lease expired", requeued unassigned when retries
\* <= max_retries and FAILED otherwise) and leaves the other RUNNING tasks as
\* they are: a step that breaks the rule is not a step of either operation.
C10_LeaseRecovery ==
    [][/\ ~RecoveryRule => ~recover_stale_tasks
       /\ \A n \in NodeIds, ls \in LeaseSecondsInputs :
             ~PullRecoveryRule(n, ls) => ~pull_task_for_node(n, ls)]_vars

\* a lease of one second, expired and recovered: QUEUED, retries = 1, unassigned
C10_Witness ==
    \E t \in DOMAIN tasks :
        /\ tasks[t].status = "QUEUED"
        /\ tasks[t].retries = 1
        /\ tasks[t].assigned_node_id = None
        /\ tasks[t].error = "Task lease expired"
        /\ tasks[t].started_at + 1 < clock

\* the step leases the task row `t` (only a pull writes RUNNING on a row)
Leased(t) == tasks'[t].status = "RUNNING" /\ tasks'[t] # tasks[t]

\* C11: pull then result round trip.  A task leased by a pull was QUEUED when
\* the pull selected it (QUEUED before the pull, or requeued by the recovery the
\* pull starts with) and is RUNNING for an ONLINE node afterwards; a success
\* result from its lessee makes it COMPLETED with error cleared and raises the
\* job's completed_tasks by one; a COMPLETED task is never changed again, so no
\* later pull leases it.
C11_PullResultRoundTrip ==
    [][\A t \in DOMAIN tasks :
          /\ Leased(t)
             => /\ tasks[t].status = "QUEUED" \/ Expired(tasks[t], clock)
                /\ tasks'[t].assigned_node_id \in DOMAIN nodes
                /\ nodes[tasks'[t].assigned_node_id].status = "ONLINE"
          /\ \A n \in NodeIds :
                (/\ tasks[t].status = "RUNNING"
                 /\ tasks[t].assigned_node_id = n
                 /\ submit_task_result(t, n, TRUE))
                => /\ tasks'[t].status = "COMPLETED"
                   /\ tasks'[t].error = None
                   /\ _job_stats(tasks', tasks[t].job_id).completed_tasks
                         = _job_stats(tasks, tasks[t].job_id).completed_tasks + 1
          /\ tasks[t].status = "COMPLETED" => tasks'[t] = tasks[t]]_vars

\* a task completed on its second lease (the first attempt left an error on
\* the row), its job counting one completed task
C11_Witness ==
    \E t \in DOMAIN tasks :
        /\ tasks[t].status = "COMPLETED"
        /\ tasks[t].retries = 1
        /\ tasks[t].error = None
        /\ _job_stats(tasks, tasks[t].job_id).completed_tasks = 1
        /\ jobs[tasks[t].job_id].status = "COMPLETED"

\* the rejection the claim requires for a result of node `n` on task id `t`
RejectionRule(t, n) ==
    IF t \notin DOMAIN tasks
    THEN SubmitOutcome(tasks, t, n) = "KeyError" /\ UNCHANGED <<tasks, jobs, results>>
    ELSE IF tasks[t].assigned_node_id # None /\ tasks[t].assigned_node_id # n
    THEN /\ SubmitOutcome(tasks, t, n) = "AssignmentMismatch"
         /\ UNCHANGED <<tasks, jobs, results>>
    ELSE IF tasks[t].status \notin {"RUNNING", "QUEUED"}
    THEN /\ SubmitOutcome(tasks, t, n) = "NotExecutable"
         /\ UNCHANGED <<tasks, jobs, results>>
    ELSE TRUE

\* C12: submit_task_result is rejected with KeyError (NotFound) for an unknown
\* task id, with AssignmentMismatch when the task is assigned to another node,
\* with NotExecutable when the status is neither RUNNING nor QUEUED, and a
\* rejected call appends no result row and leaves tasks and jobs as they were:
\* a step that breaks this is not a step of submit_task_result.
C12_RejectedResults ==
    [][\A t \in TaskIds, n \in NodeIds, ok \in BOOLEAN :
          ~RejectionRule(t, n) => ~submit_task_result(t, n, ok)]_vars

\* a COMPLETED task of n1 with its one result row, and n2 registered: a result
\* of n2 is a mismatch, another result of n1 is not executable
C12_Witness ==
    \E t \in DOMAIN tasks :
        /\ tasks[t].status = "COMPLETED"
        /\ tasks[t].assigned_node_id = "n1"
        /\ "n2" \in DOMAIN nodes
        /\ results = 1

\* C13: a result submitted by a node that is not the current lessee of the
\* task (the task is not RUNNING for that node) is rejected: it changes neither
\* the task nor its job and appends no result row.
C13_NonLesseeRejected ==
    [][\A t \in DOMAIN tasks, n \in NodeIds, ok \in BOOLEAN :
          (/\ ~(tasks[t].status = "RUNNING" /\ tasks[t].assigned_node_id = n)
           /\ submit_task_result(t, n, ok))
          => UNCHANGED <<tasks, jobs, results>>]_vars

\* the QUEUED rows node `n` is eligible for when a pull at `now` scans them
\* (the pull has recovered the expired leases first)
Candidates(n, now) ==
    LET ts1 == RecoveredTasks(tasks, now)
    IN  {u \in DOMAIN ts1 : /\ ts1[u].status = "QUEUED"
                            /\ evaluate_node_eligibility(nodes[n], ts1[u].type)}

\* C14: the task a pull leases to a node is, among the QUEUED tasks for whose
\* type the node is eligible, one of maximum weighted score (score_node plus
\* age bonus), the earliest created among those of equal score; and a pull of
\* a registered node with such a task to take does lease one.
C14_MaxWeightedScore ==
    [][/\ \A t \in DOMAIN tasks :
            Leased(t)
            => LET n == tasks'[t].assigned_node_id
               IN  /\ n \in DOMAIN nodes
                   /\ t \in Candidates(n, clock)
                   /\ \A u \in Candidates(n, clock) :
                        /\ WeightedScore(nodes[n], tasks[u], clock)
                              <= WeightedScore(nodes[n], tasks[t], clock)
                        /\ WeightedScore(nodes[n], tasks[u], clock)
                              = WeightedScore(nodes[n], tasks[t], clock)
                           => tasks[t].created_at <= tasks[u].created_at
       /\ \A n \in DOMAIN nodes :
            (Candidates(n, clock) # {} /\ \A t \in DOMAIN tasks : ~Leased(t))
            => ~pull_task_for_node(n, 1)]_vars

\* n1 holds a task although an older task of lower score, for which it is
\* eligible too, was (and still is) waiting
C14_Witness ==
    \E t, u \in DOMAIN tasks :
        /\ tasks[t].status = "RUNNING"
        /\ tasks[t].assigned_node_id = "n1"
        /\ tasks[t].lease_expires_at >= clock
        /\ tasks[u].status = "QUEUED"
        /\ tasks[u].created_at < tasks[t].created_at
        /\ score_node(nodes["n1"], tasks[u].type) < score_node(nodes["n1"], tasks[t].type)
        /\ evaluate_node_eligibility(nodes["n1"], tasks[u].type)

\* C15: a pull leases a task only to a registered node that is, at the time of
\* the pull, ONLINE, enabled, within its cpu and ram caps (and, for INFERENCE,
\* its gpu cap) and allows the task's type.
C15_EligibleLessee ==
    [][\A t \in DOMAIN tasks :
          Leased(t)
          => LET n == tasks'[t].assigned_node_id
             IN  /\ n \in DOMAIN nodes
                 /\ nodes[n].status = "ONLINE"
                 /\ nodes[n].policy.enabled
                 /\ tasks[t].type \in nodes[n].policy.task_allowlist
                 /\ nodes[n].metrics.cpu_percent <= nodes[n].policy.cpu_cap_percent
                 /\ nodes[n].metrics.ram_percent <= nodes[n].policy.ram_cap_percent
                 /\ (tasks[t].type = "INFERENCE" /\ nodes[n].metrics.gpu_percent # NoPct)
                    => nodes[n].metrics.gpu_percent
                          <= (IF nodes[n].policy.gpu_cap_percent # NoPct
                              THEN nodes[n].policy.gpu_cap_percent ELSE 100)]_vars

\* n1, whose allowlist lacks INFERENCE, holds the EMBEDDINGS task while the
\* older INFERENCE task has never been leased
C15_Witness ==
    \E t, u \in DOMAIN tasks :
        /\ tasks[t].status = "RUNNING"
        /\ tasks[t].assigned_node_id = "n1"
        /\ tasks[t].type = "EMBEDDINGS"
        /\ nodes["n1"].policy.task_allowlist = {"EMBEDDINGS"}
        /\ tasks[u].type = "INFERENCE"
        /\ tasks[u].status = "QUEUED"
        /\ tasks[u].started_at = NoTime
        /\ tasks[u].created_at < tasks[t].created_at

\* the requests the claim lists as accepted transitions to another status
ClaimedAllowed == {<<"QUEUED", "RUNNING">>, <<"RUNNING", "COMPLETED">>, <<"RUNNING", "FAILED">>}

\* what C16 requires of transition_job_status(j, ns, err) on an existing job
TransitionRule(j, ns, err) ==
    IF ns = jobs[j].status
    THEN jobs' = IF err # None THEN [jobs EXCEPT ![j].error = err] ELSE jobs
    ELSE IF <<jobs[j].status, ns>> \in ClaimedAllowed
    THEN jobs'[j].status = ns
    ELSE TransitionOutcome(jobs, j, ns) = "InvalidTransition" /\ jobs' = jobs

\* C16: transition_job_status accepts QUEUED->RUNNING, RUNNING->COMPLETED,
\* RUNNING->FAILED and same-state requests only; a same-state request changes
\* only error, and only when an error is supplied; every other request yields
\* InvalidTransition and leaves the job as it was: a step that breaks this is
\* not a step of transition_job_status.
C16_AllowedTransitions ==
    [][\A j \in DOMAIN jobs, ns \in JobStatus, err \in ErrorInputs :
          ~TransitionRule(j, ns, err) => ~transition_job_status(j, ns, err)]_vars

\* a CANCELLED job that carries a supplied error: only a same-state request
\* writes on a CANCELLED job
C16_Witness ==
    \E j \in DOMAIN jobs : jobs[j].status = "CANCELLED" /\ jobs[j].error = "oom"

\* C17: COMPLETED, FAILED and CANCELLED are terminal: no step changes the
\* status of a job that has one of them.
C17_TerminalJobStates ==
    [][\A j \in DOMAIN jobs :
          jobs[j].status \in {"COMPLETED", "FAILED", "CANCELLED"}
          => jobs'[j].status = jobs[j].status]_vars

\* C18 as stated: QUEUED->RUNNING sets started_at if unset, adds one to
\* attempts and clears error; RUNNING->COMPLETED sets completed_at and clears
\* error; RUNNING->FAILED sets completed_at and sets error to the supplied
\* reason, else the existing error, else "Job failed".
C18_ManualTransitionEffects ==
    [][\A j \in DOMAIN jobs, err \in ErrorInputs :
          /\ (jobs[j].status = "QUEUED" /\ transition_job_status(j, "RUNNING", err))
             => /\ jobs'[j].started_at = IF jobs[j].started_at # NoTime
                                         THEN jobs[j].started_at ELSE clock
                /\ jobs'[j].attempts = jobs[j].attempts + 1
                /\ jobs'[j].error = None
          /\ (jobs[j].status = "RUNNING" /\ transition_job_status(j, "COMPLETED", err))
             => jobs'[j].completed_at = clock /\ jobs'[j].error = None
          /\ (jobs[j].status = "RUNNING" /\ transition_job_status(j, "FAILED", err))
             => /\ jobs'[j].completed_at = clock
                /\ jobs'[j].error = IF err # None THEN err
                                    ELSE IF jobs[j].error # None THEN jobs[j].error
                                    ELSE "Job failed"]_vars

\* C18 amended: the same, except that on RUNNING->FAILED an empty supplied
\* reason counts as none and an empty existing error counts as none: error is
\* the supplied reason if it is a non-empty string, else the existing error if
\* it is a non-empty string, else "Job failed".
C18_ManualTransitionEffects_Amended ==
    [][\A j \in DOMAIN jobs, err \in ErrorInputs :
          /\ (jobs[j].status = "QUEUED" /\ transition_job_status(j, "RUNNING", err))
             => /\ jobs'[j].started_at = IF jobs[j].started_at # NoTime
                                         THEN jobs[j].started_at ELSE clock
                /\ jobs'[j].attempts = jobs[j].attempts + 1
                /\ jobs'[j].error = None
          /\ (jobs[j].status = "RUNNING" /\ transition_job_status(j, "COMPLETED", err))
             => jobs'[j].completed_at = clock /\ jobs'[j].error = None
          /\ (jobs[j].status = "RUNNING" /\ transition_job_status(j, "FAILED", err))
             => /\ jobs'[j].completed_at = clock
                /\ jobs'[j].error = IF err \notin {None, ""} THEN err
                                    ELSE IF jobs[j].error \notin {None, ""} THEN jobs[j].error
                                    ELSE "Job failed"]_vars

\* a job started and failed by hand with no reason and no earlier error
C18_Witness ==
    \E j \in DOMAIN jobs :
        /\ jobs[j].status = "FAILED"
        /\ jobs[j].error = "Job failed"
        /\ jobs[j].attempts = 1
        /\ jobs[j].started_at # NoTime
        /\ jobs[j].completed_at > jobs[j].started_at

\* C19: a pass of the monitor sets OFFLINE, and gets back to publish, exactly
\* the nodes whose last_seen is older than the cutoff and that are not OFFLINE
\* yet, and leaves every other node alone; a node goes OFFLINE only when its
\* last_seen is older than the cutoff, and an OFFLINE node stays OFFLINE until
\* a heartbeat makes it ONLINE.  So a node without heartbeat goes OFFLINE, and
\* is published, exactly once.
C19_OfflineOnce ==
    [][\A n \in DOMAIN nodes :
          /\ \A ss \in StaleSecondsInputs :
                stale_node_monitor(ss)
                => IF nodes[n].last_seen < clock - ss /\ nodes[n].status # "OFFLINE"
                   THEN /\ nodes'[n] = [nodes[n] EXCEPT !.status = "OFFLINE"]
                        /\ n \in stale_nodes'
                   ELSE nodes'[n] = nodes[n] /\ n \notin stale_nodes'
          /\ (nodes[n].status # "OFFLINE" /\ nodes'[n].status = "OFFLINE")
             => \E ss \in StaleSecondsInputs : nodes[n].last_seen < clock - ss
          /\ (nodes[n].status = "OFFLINE" /\ nodes'[n].status # "OFFLINE")
             => /\ nodes'[n].status = "ONLINE"
                /\ nodes'[n].last_seen = nodes'[n].metrics.heartbeat_ts
                /\ nodes'[n].metrics \in HeartbeatInputs(clock)]_vars

\* n1 is OFFLINE, stale, and the last pass of the monitor got nothing back:
\* it was returned by an earlier pass and not again
C19_Witness ==
    /\ "n1" \in DOMAIN nodes
    /\ nodes["n1"].status = "OFFLINE"
    /\ nodes["n1"].last_seen < clock - 1
    /\ stale_nodes = {}

\* C20: after update_node_metrics(node_id, metrics) the node exists, is
\* ONLINE whatever it was before, has the supplied metrics and last_seen =
\* metrics.heartbeat_ts; a node created by the call has the default
\* capabilities and policy, an existing node keeps its own.
C20_HeartbeatEffects ==
    [][\A n \in NodeIds, m \in HeartbeatInputs(clock) :
          update_node_metrics(n, m)
          => /\ n \in DOMAIN nodes'
             /\ nodes'[n].status = "ONLINE"
             /\ nodes'[n].metrics = m
             /\ nodes'[n].last_seen = m.heartbeat_ts
             /\ nodes'[n].policy = IF n \in DOMAIN nodes THEN nodes[n].policy
                                   ELSE DefaultPolicy
             /\ nodes'[n].capabilities = IF n \in DOMAIN nodes THEN nodes[n].capabilities
                                         ELSE DefaultCapabilities]_vars

\* n1 was set OFFLINE by the last pass of the monitor and is ONLINE again, its
\* last_seen the time stamp of a heartbeat sent a second before it arrived
C20_Witness ==
    /\ "n1" \in stale_nodes
    /\ nodes["n1"].status = "ONLINE"
    /\ nodes["n1"].last_seen = nodes["n1"].metrics.heartbeat_ts
    /\ nodes["n1"].last_seen = clock - 1
    /\ nodes["n1"].policy.enabled = FALSE

(* C21: evaluate_node_eligibility returns exactly the reasons that apply    *)
(* (policy_disabled, node_not_online, task_not_allowed, cpu_over_cap when   *)
(* cpu_percent > cpu_cap_percent, ram_over_cap when ram_percent >           *)
(* ram_cap_percent, gpu_over_cap only for INFERENCE with a gpu_percent      *)
(* above gpu_cap_percent or 100), each once, and the node is eligible iff   *)
(* there is none; lowering cpu_cap_percent below the cpu_percent of an      *)
(* eligible node makes it ineligible with cpu_over_cap; a missing           *)
(* gpu_percent never gives gpu_over_cap.                                    *)
ReasonNames ==
    {"policy_disabled", "node_not_online", "task_not_allowed",
     "cpu_over_cap", "ram_over_cap", "gpu_over_cap"}

HasReason(rs, r) == \E i \in 1 .. Len(rs) : rs[i] = r

ReasonApplies(node, task_type, r) ==
    CASE r = "policy_disabled" -> node.policy.enabled = FALSE
      [] r = "node_not_online" -> node.status \in {"UNKNOWN", "OFFLINE"}
      [] r = "task_not_allowed" -> task_type \notin node.policy.task_allowlist
      [] r = "cpu_over_cap" -> node.metrics.cpu_percent > node.policy.cpu_cap_percent
      [] r = "ram_over_cap" -> node.metrics.ram_percent > node.policy.ram_cap_percent
      [] r = "gpu_over_cap" ->
            /\ task_type = "INFERENCE"
            /\ node.metrics.gpu_percent # NoPct
            /\ \/ /\ node.policy.gpu_cap_percent # NoPct
                  /\ node.metrics.gpu_percent > node.policy.gpu_cap_percent
               \/ /\ node.policy.gpu_cap_percent = NoPct
                  /\ node.metrics.gpu_percent > 100

ExactReasons(node, task_type) ==
    LET rs == EligibilityReasons(node, task_type) IN
    /\ \A i \in 1 .. Len(rs) : rs[i] \in ReasonNames
    /\ \A i, j \in 1 .. Len(rs) : i # j => rs[i] # rs[j]
    /\ \A r \in ReasonNames : HasReason(rs, r) <=> ReasonApplies(node, task_type, r)
    /\ evaluate_node_eligibility(node, task_type) <=> rs = <<>>
    /\ node.metrics.gpu_percent = NoPct => ~HasReason(rs, "gpu_over_cap")

CpuCapLowered(n) ==
    /\ n \in DOMAIN nodes
    /\ nodes'[n].policy.cpu_cap_percent < nodes[n].policy.cpu_cap_percent
    /\ nodes'[n].policy.cpu_cap_percent < nodes'[n].metrics.cpu_percent

C21_EligibilityReasons ==
    [][/\ \A n \in DOMAIN nodes', ty \in TaskType : ExactReasons(nodes'[n], ty)
       /\ \A n \in DOMAIN nodes', ty \in TaskType :
            CpuCapLowered(n) /\ evaluate_node_eligibility(nodes[n], ty)
                => /\ ~evaluate_node_eligibility(nodes'[n], ty)
                   /\ EligibilityReasons(nodes'[n], ty) = <<"cpu_over_cap">>]_vars

\* an ONLINE node without GPU metrics whose CPU cap was set below its load
C21_Witness ==
    /\ "n1" \in DOMAIN nodes
    /\ nodes["n1"].status = "ONLINE"
    /\ nodes["n1"].metrics.gpu_percent = NoPct
    /\ nodes["n1"].policy.cpu_cap_percent < nodes["n1"].metrics.cpu_percent
    /\ EligibilityReasons(nodes["n1"], "INFERENCE") = <<"cpu_over_cap">>

(* C22: when EDGE_MESH_SHARED_SECRET is set, a pull or result request whose *)
(* X-EdgeMesh-Secret header is missing or different from it is answered 401 *)
(* (and so reaches no handler: it changes no task, job or result); when the *)
(* variable is not set every request passes.                                *)
C22_SharedSecretGate ==
    \A env \in SecretEnvInputs, h \in HeaderInputs, t \in TaskIds, n \in AuthNodeIds :
        /\ env # <<>> /\ (h = NoHeader \/ h # env)
              => /\ pull_task_status(env, h) = "401"
                 /\ submit_result_status(env, h, t, n) = "401"
        /\ env = <<>>
              => /\ pull_task_status(env, h) = "200"
                 /\ submit_result_status(env, h, t, n) \in {"200", "404", "409"}

\* the capabilities and caps of the worked example
ExampleNode(node) ==
    /\ node.capabilities.cpu_threads = 16
    /\ node.capabilities.ram_total_gb = GB(32)
    /\ node.capabilities.vram_total_gb = GB(24)
    /\ node.policy.cpu_cap_percent = 50
    /\ node.policy.ram_cap_percent = 80
    /\ node.policy.gpu_cap_percent = 75

\* (8.0, 25.6, 18.0) in 1e-5 units
ExampleCapacity ==
    [effective_cpu_threads |-> 800000, effective_ram_gb |-> 2560000,
     effective_vram_gb |-> 1800000]

(* C23: compute_effective_capacity returns cpu_threads = (cpu_threads or    *)
(* cpu_cores or 0) x cpu_cap/100, ram_gb = (ram_total_gb or ram_gb or 0) x  *)
(* ram_cap/100 and vram_gb = vram_total_gb x (gpu_cap or 100)/100 when      *)
(* vram_total_gb is present, null otherwise; 16 threads, 32 GB and 24 GB    *)
(* under caps 50/80/75 give (8.0, 25.6, 18.0).                              *)
C23_EffectiveCapacity ==
    \A n \in DOMAIN nodes :
        LET caps == nodes[n].capabilities
            policy == nodes[n].policy
            capacity == compute_effective_capacity(nodes[n])
        IN  /\ capacity.effective_cpu_threads =
                  1000 * OrNum(caps.cpu_threads, OrNum(caps.cpu_cores, 0))
                       * policy.cpu_cap_percent
            /\ capacity.effective_ram_gb =
                  OrNum(caps.ram_total_gb, OrNum(caps.ram_gb, 0)) * policy.ram_cap_percent
            /\ capacity.effective_vram_gb =
                  IF caps.vram_total_gb # NoNum
                  THEN caps.vram_total_gb * OrNum(policy.gpu_cap_percent, 100)
                  ELSE NoNum
            /\ ExampleNode(nodes[n]) => capacity = ExampleCapacity

\* `r` is `exact` rounded to 3 decimals (both in 1e-5 units)
RoundedTo3(r, exact) == r % 100 = 0 /\ r - exact <= 50 /\ exact - r <= 50

(* C23 as amended: each capacity is the product rounded to 3 decimals; the  *)
(* thread count is cpu_threads if set, else cpu_cores if set, else 0; the   *)
(* RAM size is ram_total_gb if set and not 0, else ram_gb if set and not 0, *)
(* else 0; the GPU cap counts as 100 only when it is null, so a cap of 0    *)
(* gives a VRAM capacity of 0; the worked example is as stated.             *)
C23_EffectiveCapacity_Amended ==
    \A n \in DOMAIN nodes :
        LET caps == nodes[n].capabilities
            policy == nodes[n].policy
            capacity == compute_effective_capacity(nodes[n])
            threads == IF caps.cpu_threads # NoNum THEN caps.cpu_threads
                       ELSE IF caps.cpu_cores # NoNum THEN caps.cpu_cores ELSE 0
            ram == IF caps.ram_total_gb \notin {NoNum, 0} THEN caps.ram_total_gb
                   ELSE IF caps.ram_gb \notin {NoNum, 0} THEN caps.ram_gb ELSE 0
        IN  /\ RoundedTo3(capacity.effective_cpu_threads,
                          1000 * threads * policy.cpu_cap_percent)
            /\ RoundedTo3(capacity.effective_ram_gb, ram * policy.ram_cap_percent)
            /\ caps.vram_total_gb = NoNum => capacity.effective_vram_gb = NoNum
            /\ caps.vram_total_gb # NoNum /\ policy.gpu_cap_percent = NoPct
                  => RoundedTo3(capacity.effective_vram_gb, caps.vram_total_gb * 100)
            /\ caps.vram_total_gb # NoNum /\ policy.gpu_cap_percent # NoPct
                  => RoundedTo3(capacity.effective_vram_gb,
                                caps.vram_total_gb * policy.gpu_cap_percent)
            /\ ExampleNode(nodes[n]) => capacity = ExampleCapacity

\* the node of the worked example is stored
C23_Witness ==
    \E n \in DOMAIN nodes :
        /\ ExampleNode(nodes[n])
        /\ compute_effective_capacity(nodes[n]).effective_ram_gb = 2560000

(* C25: for every stored capabilities record, has_gpu is true exactly when  *)
(* gpu_name is not null or vram_total_gb is not null.                       *)
C25_HasGpuIff ==
    \A n \in DOMAIN nodes :
        LET caps == nodes[n].capabilities
        IN  caps.has_gpu <=> (caps.gpu_name # None \/ caps.vram_total_gb # NoNum)

(* C25 as amended: has_gpu is true whenever gpu_name is a non-empty string  *)
(* or vram_total_gb is not null; it may also be true without either, as     *)
(* the payload declared it.                                                 *)
C25_HasGpuIff_Amended ==
    \A n \in DOMAIN nodes :
        LET caps == nodes[n].capabilities
        IN  (caps.gpu_name \notin {None, ""} \/ caps.vram_total_gb # NoNum) => caps.has_gpu

\* a record whose payload gave a VRAM size but left has_gpu at its default
C25_Witness ==
    \E n \in DOMAIN nodes :
        /\ nodes[n].capabilities.vram_total_gb = GB(24)
        /\ nodes[n].capabilities.gpu_name = None
        /\ nodes[n].capabilities.has_gpu

\* the nodes that are enabled and ONLINE
Contributing(ns) ==
    {n \in DOMAIN ns : ns[n].policy.enabled /\ ns[n].status = "ONLINE"}

\* the sum of one capacity of the nodes in S, a null capacity counting 0
RECURSIVE CapacitySum(_, _, _)
CapacitySum(ns, S, field) ==
    IF S = {} THEN 0
    ELSE LET n == CHOOSE x \in S : TRUE
             v == compute_effective_capacity(ns[n])[field]
         IN  (IF v = NoNum THEN 0 ELSE v) + CapacitySum(ns, S \ {n}, field)

SummaryTotals(ns) ==
    <<cluster_summary(ns).total_effective_cpu_threads,
      cluster_summary(ns).total_effective_ram_gb,
      cluster_summary(ns).total_effective_vram_gb>>

WithoutNode(ns, n) == [m \in DOMAIN ns \ {n} |-> ns[m]]

(* C24: after any step of the node registry (heartbeat, capabilities or     *)
(* policy update, stale-node pass) the capacity totals of the cluster       *)
(* summary are the sums of compute_effective_capacity over exactly the      *)
(* enabled and ONLINE nodes: a disabled, UNKNOWN or OFFLINE node            *)
(* contributes nothing (the totals are those of the registry without it),   *)
(* and a change of a contributing node's policy moves the CPU total by the  *)
(* change of that node's capacity.                                          *)
C24_ClusterSummary ==
    [][/\ SummaryTotals(nodes') =
            <<CapacitySum(nodes', Contributing(nodes'), "effective_cpu_threads"),
              CapacitySum(nodes', Contributing(nodes'), "effective_ram_gb"),
              CapacitySum(nodes', Contributing(nodes'), "effective_vram_gb")>>
       /\ \A n \in DOMAIN nodes' \ Contributing(nodes') :
             SummaryTotals(WithoutNode(nodes', n)) = SummaryTotals(nodes')
       /\ \A n \in Contributing(nodes) \cap Contributing(nodes') :
             nodes'[n].policy # nodes[n].policy
                => cluster_summary(nodes').total_effective_cpu_threads
                     - cluster_summary(nodes).total_effective_cpu_threads
                   = compute_effective_capacity(nodes'[n]).effective_cpu_threads
                     - compute_effective_capacity(nodes[n]).effective_cpu_threads]_vars

\* n1 contributes its capped capacity (8 threads of 16) while n2, disabled
\* with capabilities of its own, contributes nothing
C24_Witness ==
    /\ DOMAIN nodes = {"n1", "n2"}
    /\ nodes["n1"].status = "ONLINE" /\ nodes["n1"].policy.cpu_cap_percent = 50
    /\ nodes["n1"].capabilities.cpu_threads = 16
    /\ nodes["n2"].status = "ONLINE" /\ ~nodes["n2"].policy.enabled
    /\ nodes["n2"].capabilities.cpu_cores = 8
    /\ cluster_summary(nodes).total_effective_cpu_threads = 800000

\* the events numbered a+1 .. b, in order
Numbered(a, b) == [i \in 1 .. (b - a) |-> a + i]

IsPrefix(s, t) == Len(s) <= Len(t) /\ s = SubSeq(t, 1, Len(s))

(* C26: each subscriber of the event bus receives the events published      *)
(* while it is subscribed, in publish order and none twice (what it was     *)
(* sent followed by what waits in its queue is exactly the events published *)
(* since it subscribed), and none after it has unsubscribed (what it was    *)
(* sent no longer changes, and is a prefix of the events published between  *)
(* its subscribe and now).                                                  *)
C26_EventDelivery ==
    [][\A q \in QueueIds :
          /\ streams'[q].pc = "idle" => streams'[q].sent = <<>> /\ q \notin DOMAIN subscribers'
          /\ streams'[q].pc = "open"
                => /\ q \in DOMAIN subscribers'
                   /\ streams'[q].sent \o subscribers'[q]
                        = Numbered(streams'[q].joined, published')
          /\ streams'[q].pc = "closed"
                => /\ q \notin DOMAIN subscribers'
                   /\ IsPrefix(streams'[q].sent, Numbered(streams'[q].joined, published'))
          /\ streams[q].pc = "closed" => streams'[q] = streams[q]]_vars

\* q1 subscribed after the first event, was sent the second, has the third
\* waiting, and q2 has unsubscribed
C26_Witness ==
    /\ streams["q1"].pc = "open" /\ streams["q1"].joined = 1
    /\ streams["q1"].sent = <<2>> /\ subscribers["q1"] = <<3>>
    /\ streams["q2"].pc = "closed"

\* what holds of a step that is a pull of node n returning a task
PullPostcondition(n) ==
    /\ DOMAIN tasks' = DOMAIN tasks
    /\ \A t \in DOMAIN tasks :
          Leased(t)
          => LET j == tasks[t].job_id
             IN  /\ tasks'[t].status = "RUNNING"
                 /\ tasks'[t].assigned_node_id = n
                 /\ tasks'[t].lease_expires_at # NoTime
                 /\ jobs'[j].status = "RUNNING"
                 /\ jobs'[j].started_at # NoTime
                 /\ \E u \in DOMAIN tasks' :
                       tasks'[u].job_id = j /\ tasks'[u].assigned_node_id = n
                 /\ \E i \in 1 .. Len(_job_stats(tasks', j).assigned_nodes) :
                       _job_stats(tasks', j).assigned_nodes[i] = n
                 /\ \A u \in DOMAIN tasks \ {t} :
                       tasks'[u] # tasks[u] => Expired(tasks[u], clock)

(* C27: after a pull that returns task t to node N, t is RUNNING, assigned  *)
(* to N and has a lease, its job is RUNNING with started_at set and N among *)
(* its assigned nodes, and no other task has changed except those whose     *)
(* lease had expired: a step that breaks this is not a pull.                *)
C27_PullPostcondition ==
    [][\A n \in NodeIds, ls \in LeaseSecondsInputs :
          ~PullPostcondition(n) => ~pull_task_for_node(n, ls)]_vars

\* n1 holds a task leased at time 2 while an older task of the job has
\* FAILED, its lease having run out
C27_Witness ==
    \E t, u \in DOMAIN tasks :
        /\ tasks[t].status = "RUNNING"
        /\ tasks[t].assigned_node_id = "n1"
        /\ tasks[t].started_at = 2
        /\ tasks[u].status = "FAILED"
        /\ jobs[tasks[t].job_id].status = "RUNNING"

\* a task of job j was created or changed by the step
TaskDriven(j) ==
    \E t \in DOMAIN tasks' :
        /\ tasks'[t].job_id = j
        /\ t \notin DOMAIN tasks \/ tasks'[t] # tasks[t]

AssignedOfJob(ts, j) ==
    {ts[t].assigned_node_id : t \in {x \in TasksOfJob(ts, j) : ts[x].assigned_node_id # None}}

\* the ids in lexicographic order: "n1" before "n2"
LexLeq(a, b) == a = b \/ (a = "n1" /\ b = "n2")

(* C29: after every task-driven refresh of a job (a step that creates or    *)
(* changes one of its tasks), job.assigned_node_id is the lexicographically *)
(* smallest assigned_node_id among the job's tasks, and null when no task   *)
(* of the job is assigned.                                                  *)
C29_SmallestAssignedNode ==
    [][\A j \in DOMAIN jobs :
          TaskDriven(j)
          => LET assigned == AssignedOfJob(tasks', j)
             IN  /\ assigned = {} => jobs'[j].assigned_node_id = None
                 /\ assigned # {}
                       => /\ jobs'[j].assigned_node_id \in assigned
                          /\ \A n \in assigned : LexLeq(jobs'[j].assigned_node_id, n)]_vars

\* n2 leased and completed the first task, n1 holds the second: the job
\* shows n1
C29_Witness ==
    \E t, u \in DOMAIN tasks :
        /\ tasks[t].assigned_node_id = "n2" /\ tasks[t].status = "COMPLETED"
        /\ tasks[u].assigned_node_id = "n1" /\ tasks[u].status = "RUNNING"
        /\ t < u
        /\ jobs[tasks[t].job_id].assigned_node_id = "n1"

\* the started_at / completed_at values on the tasks of job j
StartedOfJob(ts, j) ==
    {ts[t].started_at : t \in {x \in TasksOfJob(ts, j) : ts[x].started_at # NoTime}}

CompletedOfJob(ts, j) ==
    {ts[t].completed_at : t \in {x \in TasksOfJob(ts, j) : ts[x].completed_at # NoTime}}

Earliest(S) == IF S = {} THEN NoTime ELSE CHOOSE x \in S : \A y \in S : x <= y

Latest(S) == IF S = {} THEN NoTime ELSE CHOOSE x \in S : \A y \in S : x >= y

(* C30: after every task-driven refresh of a job, job.started_at equals the *)
(* earliest task started_at, and job.completed_at equals the latest task    *)
(* completed_at when the status is COMPLETED or FAILED and is null when the *)
(* status is QUEUED or RUNNING.                                             *)
C30_JobTimestamps ==
    [][\A j \in DOMAIN jobs :
          TaskDriven(j)
          => /\ jobs'[j].started_at = Earliest(StartedOfJob(tasks', j))
             /\ jobs'[j].status \in {"COMPLETED", "FAILED"}
                   => jobs'[j].completed_at = Latest(CompletedOfJob(tasks', j))
             /\ jobs'[j].status \in {"QUEUED", "RUNNING"}
                   => jobs'[j].completed_at = NoTime]_vars

(* C30 as amended: a task-driven refresh leaves a started_at that is set    *)
(* (by a manual transition to RUNNING or by an earlier pull) as it is, and  *)
(* sets an unset one to the earliest task started_at (it stays null when no *)
(* task has started); completed_at is the latest task completed_at when the *)
(* status is COMPLETED or FAILED and is null for every other status.        *)
C30_JobTimestamps_Amended ==
    [][\A j \in DOMAIN jobs :
          TaskDriven(j)
          => /\ jobs[j].started_at # NoTime => jobs'[j].started_at = jobs[j].started_at
             /\ jobs[j].started_at = NoTime
                   => jobs'[j].started_at = Earliest(StartedOfJob(tasks', j))
             /\ jobs'[j].status \in {"COMPLETED", "FAILED"}
                   => jobs'[j].completed_at = Latest(CompletedOfJob(tasks', j))
             /\ jobs'[j].status \notin {"COMPLETED", "FAILED"}
                   => jobs'[j].completed_at = NoTime]_vars

\* the job was set RUNNING by hand at time 0 and its task was leased at
\* time 1 and completed at time 2
C30_Witness ==
    \E t \in DOMAIN tasks :
        /\ tasks[t].started_at = 1
        /\ tasks[t].completed_at = 2
        /\ jobs[tasks[t].job_id].started_at = 0
        /\ jobs[tasks[t].job_id].status = "COMPLETED"
        /\ jobs[tasks[t].job_id].completed_at = 2

(* C31: heartbeats of one node are last-writer-wins.  Every call is one     *)
(* transaction, so an interleaving of calls is a sequence of commits: after *)
(* each commit the stored metrics and last_seen are those of that call (an  *)
(* older heartbeat that commits later moves last_seen back), they are never *)
(* a mixture of two heartbeats (last_seen is the heartbeat_ts of the stored *)
(* metrics), and no other step changes them.                                *)
C31_LastWriterWins ==
    [][/\ \A n \in NodeIds, m \in HeartbeatInputs(clock) :
             update_node_metrics(n, m)
             => nodes'[n].metrics = m /\ nodes'[n].last_seen = m.heartbeat_ts
       /\ \A n \in DOMAIN nodes' :
             nodes'[n].last_seen = nodes'[n].metrics.heartbeat_ts
       /\ \A n \in DOMAIN nodes :
             (\/ nodes'[n].metrics # nodes[n].metrics
              \/ nodes'[n].last_seen # nodes[n].last_seen)
             => \E m \in HeartbeatInputs(clock) : update_node_metrics(n, m)]_vars

\* the heartbeat stored for n1 is older than one that n1 had stored before:
\* n1 was seen at time 2 at the latest by the monitor's reckoning, yet its
\* last_seen reads 1 at time 2 while n2's reads 2
C31_Witness ==
    /\ DOMAIN nodes = {"n1", "n2"}
    /\ clock = 2
    /\ nodes["n1"].status = "ONLINE" /\ nodes["n1"].last_seen = 1
    /\ nodes["n1"].metrics.heartbeat_ts = 1
    /\ nodes["n2"].status = "ONLINE" /\ nodes["n2"].last_seen = 2

(* C32: apply_migrations is idempotent.  A run executes exactly the files   *)
(* whose version is not yet in schema_migrations, in ascending order of     *)
(* version, and records each; so no file is ever executed twice on one      *)
(* database, and a run on a migrated database executes nothing and adds no  *)
(* row: running it again right away changes nothing.                        *)
Range(s) == {s[i] : i \in 1 .. Len(s)}

ExecutedBy(db, db2) == SubSeq(db2.executed, Len(db.executed) + 1, Len(db2.executed))

Ascending(s) == \A i, k \in 1 .. Len(s) : i < k => s[i] < s[k]

C32_MigrationsIdempotent ==
    [][apply_migrations
       => LET run == ExecutedBy(database, database')
          IN  /\ SubSeq(database'.executed, 1, Len(database.executed)) = database.executed
              /\ Ascending(run)
              /\ Range(run) = migration_files \ database.schema_migrations
              /\ database'.schema_migrations = database.schema_migrations \cup Range(run)
              /\ Cardinality(Range(database'.executed)) = Len(database'.executed)
              /\ migration_files \subseteq database.schema_migrations
                 => /\ run = <<>>
                    /\ database'.schema_migrations = database.schema_migrations
              /\ MigratedDatabase(database', migration_files) = database']_vars

\* three starts at least: file 2 was shipped after 3 had been applied, and the
\* database is migrated, so the next start finds nothing to execute
C32_Witness ==
    /\ database.executed = <<1, 3, 2>>
    /\ database.schema_migrations = migration_files

(* C33: a result of the lessee for a RUNNING task whose lease has expired,  *)
(* and which no recovery has yet touched, is taken like a result in time: it *)
(* is stored, a success completes the task with its retries as they were,   *)
(* a failure counts one retry (not two) and requeues or fails the task by   *)
(* max_retries, and the row never carries the lease-expiry error.           *)
C33_LateResultAccepted ==
    [][\A t \in DOMAIN tasks, success \in BOOLEAN :
          (Expired(tasks[t], clock)
             /\ submit_task_result(t, tasks[t].assigned_node_id, success))
          => /\ results' = results + 1
             /\ tasks'[t].lease_expires_at = NoTime
             /\ tasks'[t].error # "Task lease expired"
             /\ success => /\ tasks'[t].status = "COMPLETED"
                           /\ tasks'[t].retries = tasks[t].retries
                           /\ tasks'[t].completed_at = clock
                           /\ tasks'[t].error = None
             /\ ~success => /\ tasks'[t].retries = tasks[t].retries + 1
                            /\ tasks'[t].status =
                                  IF tasks[t].retries + 1 > tasks[t].max_retries
                                  THEN "FAILED" ELSE "QUEUED"]_vars

\* a task leased once at time 0 for at most one second and never recovered
\* (retries 0) was completed at time 2 by its lessee
C33_Witness ==
    \E t \in DOMAIN tasks :
        /\ tasks[t].status = "COMPLETED"
        /\ tasks[t].retries = 0
        /\ tasks[t].started_at = 0
        /\ tasks[t].completed_at = 2
        /\ tasks[t].assigned_node_id # None

(* C34: an expired lease is counted once.  In every recovery, by the        *)
(* monitor or inline in a pull, the retries of a task grow by one if its    *)
(* lease had expired and stay as they were otherwise; after the step no     *)
(* task holds an expired lease, and a recovered task that was not leased    *)
(* again holds none at any later time, so a recover_stale_tasks call right  *)
(* after finds no row and leaves tasks and jobs as they are.                *)
C34_ExpiryCountedOnce ==
    [][\/ /\ \A t \in DOMAIN tasks :
                /\ tasks'[t].retries = tasks[t].retries
                                       + (IF Expired(tasks[t], clock) THEN 1 ELSE 0)
                /\ ~Expired(tasks'[t], clock)
                /\ (Expired(tasks[t], clock) /\ tasks'[t].status # "RUNNING")
                   => \A now \in clock .. MaxTime + 1 : ~Expired(tasks'[t], now)
          /\ StaleRows(tasks', clock) = {}
          /\ RecoveredTasks(tasks', clock) = tasks'
          /\ RecoveredJobs(jobs', tasks', clock) = jobs'
       \/ ~(\/ recover_stale_tasks
            \/ \E n \in NodeIds, ls \in LeaseSecondsInputs : pull_task_for_node(n, ls))]_vars

\* two leases of one task expired and no result was ever submitted: the task
\* has two retries, one per expiry, and failed on the second
C34_Witness ==
    \E t \in DOMAIN tasks :
        /\ tasks[t].status = "FAILED"
        /\ tasks[t].retries = 2
        /\ tasks[t].error = "Task lease expired"
        /\ results = 0

(* C35: every task ends.  While the eligible node n1 keeps pulling and the  *)
(* recovery keeps running, each task that exists becomes COMPLETED or       *)
(* FAILED, and once it is, its job becomes COMPLETED or FAILED; on the way  *)
(* the retries of a task, one per lease that ended in a failed result or an *)
(* expiry, never exceed max_retries + 1.                                    *)
Ended(t) == t \in DOMAIN tasks /\ tasks[t].status \in {"COMPLETED", "FAILED"}

JobEnded(t) ==
    /\ Ended(t)
    /\ jobs[tasks[t].job_id].status \in {"COMPLETED", "FAILED"}

C36_TerminalTask ==
    [][\A t \in DOMAIN tasks :
          tasks[t].status \in {"COMPLETED", "FAILED"}
          => /\ tasks'[t].status = tasks[t].status
             /\ tasks'[t].retries = tasks[t].retries
             /\ tasks'[t].assigned_node_id = tasks[t].assigned_node_id
             /\ \A n \in NodeIds, ok \in BOOLEAN :
                   submit_task_result(t, n, ok) => results' = results]_vars

\* a task that failed at time 0 is still as it was at the last instant, and
\* one result, the failed one, is all that was stored
C36_Witness ==
    \E t \in DOMAIN tasks :
        /\ tasks[t].status = "FAILED"
        /\ tasks[t].completed_at = 0
        /\ tasks[t].retries = tasks[t].max_retries + 1
        /\ clock = MaxTime
        /\ results = 1

(* C37: a QUEUED task is assigned to no node.  Tasks are created without a  *)
(* node, and a requeue, by a failed result or by an expired lease, clears   *)
(* the node the task was leased to.                                         *)
C37_QueuedUnassigned ==
    \A t \in DOMAIN tasks :
        tasks[t].status = "QUEUED" => tasks[t].assigned_node_id = None

\* a task that was leased to a node is QUEUED again after its lease expired
C37_Witness ==
    \E t \in DOMAIN tasks :
        /\ tasks[t].status = "QUEUED"
        /\ tasks[t].started_at # NoTime
        /\ tasks[t].error = "Task lease expired"
        /\ tasks[t].assigned_node_id = None

(* C38: the status of a job never goes from RUNNING back to QUEUED.  Once a *)
(* task of the job has been leased (it has a started_at), no step, be it a  *)
(* requeue of that task by a failed result or by an expired lease or a      *)
(* create_tasks call, takes the job from RUNNING to QUEUED.                 *)
C38_NoRunningToQueued ==
    [][\A j \in DOMAIN jobs :
          (/\ jobs[j].status = "RUNNING"
           /\ \E t \in TasksOfJob(tasks, j) : tasks[t].started_at # NoTime)
          => jobs'[j].status # "QUEUED"]_vars

(* C39: after every task-driven refresh of a job (a step that creates or    *)
(* changes one of its tasks: create_tasks, a pull, a result, a recovery)    *)
(* job.attempts is the sum of the retries of its tasks, whatever a manual   *)
(* transition to RUNNING had stored there.                                  *)
C39_AttemptsFromRetries ==
    [][\A j \in DOMAIN jobs' :
          TaskDriven(j) => jobs'[j].attempts = SumRetries(tasks', TasksOfJob(tasks', j))]_vars

\* job j1 was set RUNNING by hand, which stored attempts = 1 and started_at,
\* and tasks were added afterwards: none has started, and attempts reads 0
C39_Witness ==
    \E j \in DOMAIN jobs :
        /\ jobs[j].started_at # NoTime
        /\ jobs[j].attempts = 0
        /\ TasksOfJob(tasks, j) # {}
        /\ \A t \in TasksOfJob(tasks, j) : tasks[t].started_at = NoTime

(* C40: a pull that returns none leases nothing.  A pull by an unknown node *)
(* never leases; a pull after which no task is newly RUNNING changes no     *)
(* node and stores no result, recovers every task whose lease had expired   *)
(* (also when the node id is unknown), leaves every other task as it was,   *)
(* and changes no job but the jobs of the recovered tasks.  While a lease   *)
(* has expired, a pull by an unknown node is a step that changes the state. *)
ExpiredJobs == {tasks[t].job_id : t \in {x \in DOMAIN tasks : Expired(tasks[x], clock)}}

C40_PullNoneFrame ==
    /\ [](\A n \in NodeIds \ DOMAIN nodes :
                ExpiredJobs # {} => ENABLED <<pull_task_for_node(n, 1)>>_vars)
    /\ [][\A n \in NodeIds :
             \/ /\ n \notin DOMAIN nodes => \A t \in DOMAIN tasks : ~Leased(t)
                /\ (\A t \in DOMAIN tasks : ~Leased(t))
                   => /\ nodes' = nodes
                      /\ results' = results
                      /\ DOMAIN tasks' = DOMAIN tasks
                      /\ \A t \in DOMAIN tasks :
                            IF Expired(tasks[t], clock)
                            THEN /\ tasks'[t].status \in {"QUEUED", "FAILED"}
                                 /\ tasks'[t].retries = tasks[t].retries + 1
                                 /\ tasks'[t].lease_expires_at = NoTime
                            ELSE tasks'[t] = tasks[t]
                      /\ \A j \in DOMAIN jobs \ ExpiredJobs : jobs'[j] = jobs[j]
             \/ ~pull_task_for_node(n, 1)]_vars

\* the only task there is was leased, its lease expired, and a pull, which
\* had nothing left to lease, recovered it: it failed on the expiry
C40_Witness ==
    /\ DOMAIN tasks = {1}
    /\ tasks[1].status = "FAILED"
    /\ tasks[1].error = "Task lease expired"
    /\ tasks[1].retries = 1

====
